---- MODULE Spec2Model ----
(***************************************************************************)
(* Verification model of the grocery scraper (ajayogal/scrapper).          *)
(*                                                                         *)
(* Part 1 (specification Spec): the orchestrator GroceryScraper of         *)
(* grocery-api/grocery_scraper/index.js and its command entry point main.  *)
(* A product is the pair <<store, k>>: the k-th product the adapter of     *)
(* that store returned.  An adapter's searchProducts is the environment of *)
(* the orchestrator: it settles with a list or with a rejection.           *)
(***************************************************************************)
EXTENDS Integers, Sequences, FiniteSets, TLC

\* ------------------------------------------------------------------------
\* Bounds of the model
\* ------------------------------------------------------------------------
MaxProducts == 5

None == "none"

\* ------------------------------------------------------------------------
\* GroceryScraper: constructor
\* ------------------------------------------------------------------------
\* this.scrapers, in the key order of the object literal
scrapers == <<"woolworths", "coles", "iga", "harris">>

Stores == {scrapers[i] : i \in 1..Len(scrapers)}

\* keys every object literal inherits from Object.prototype: a lookup
\* this.scrapers[key] on them yields a truthy value that is no adapter
InheritedKeys == {"constructor"}

\* store names a caller may pass
StoreNames == Stores \cup {"Coles", "IGA", "aldi", "constructor"}

\* String.prototype.toLowerCase over StoreNames
toLowerCase(name) ==
    CASE name = "Coles" -> "coles"
      [] name = "IGA" -> "iga"
      [] OTHER -> name

\* this.scrapers[key]
LookupScraper(key) ==
    IF key \in Stores THEN key
    ELSE IF key \in InheritedKeys THEN "notAnAdapter"
    ELSE "undefined"

\* the list of n products an adapter of store s resolves with
ProductsOf(s, n) == [k \in 1..n |-> <<s, k>>]

\* the lengths of the lists the adapters resolve with
ResultSizes == {0, 1, MaxProducts}

\* what one searchProducts call can do: reject, or resolve with a list
Outcomes == {[threw |-> TRUE, n |-> 0]} \cup {[threw |-> FALSE, n |-> n] : n \in ResultSizes}

VARIABLES
    entry,        \* which entry point was called: none, scrapeStore, scrapeAllStores, main
    args,         \* the arguments of that call
    adapter,      \* per store: idle, running (searchProducts pending), returned, threw
    promises,     \* per store: state of the chain scrapeStore().then().catch()
    storeValue,   \* per store: what the scrapeStore promise settled with
    results,      \* the object scrapeAllStores fills: <<key, list>> entries in insertion order
    callState,    \* the promise of the scrapeStore / scrapeAllStores call
    callValue,    \* the value it resolved with
    callError,    \* the error it rejected with
    mainPc,       \* position of main
    report,       \* what main reported
    closed        \* closeAll has run

\* one run of one adapter's searchProducts (Part 2)
VARIABLES
    adp,          \* the adapter whose searchProducts runs: none, aldi, igaApi, ...
    pc,           \* position of the run: idle, await (a request or page is pending), done
    opts,         \* the parameters of the call
    products,     \* the list the run accumulates
    locals,       \* the other locals of the loop (offset, page, scrollAttempts, ...)
    cycles,       \* number of fetch / scroll / navigation cycles started so far
    outcome,      \* the promise of searchProducts: none, pending, resolved, rejected
    returned,     \* the list it resolved with
    caught,       \* the error its catch block logged
    browser       \* this.browser: null or open

orchVars == <<entry, args, adapter, promises, storeValue, results, callState,
              callValue, callError, mainPc, report, closed>>

adapterVars == <<adp, pc, opts, products, locals, cycles, outcome, returned,
                 caught, browser>>

\* the state of the StoreSearch component of the front end (Part 4)
VARIABLES
    selectedStore,        \* the store chosen in the select, "" when none
    allProducts,          \* all fetched products
    displayedProducts,    \* currently displayed products
    loading,              \* a search is in flight
    searchError,          \* the error message shown
    currentDisplayCount,  \* the display cutoff
    request,              \* the fetch in flight: none, or the store it asks for
    fetches               \* number of fetches issued so far

\* one application of an extraction function (Part 5)
VARIABLES
    extractor,    \* the extraction that ran: none, aldi, igaApi, woolworths, iga2, ...
    element,      \* the raw item / element / container text it was given
    extracted     \* the product fields it produced

uiVars == <<selectedStore, allProducts, displayedProducts, loading, searchError,
            currentDisplayCount, request, fetches>>

extractVars == <<extractor, element, extracted>>

\* concurrent searchProducts calls on one adapter instance (Part 6)
VARIABLES
    thisBrowser,  \* this.browser: 0 for null, else the number of the launch that made it
    thisPage,     \* this.page: 0 for null, else the number of the browser it belongs to
    launches,     \* number of puppeteer.launch calls so far
    pageUrl,      \* per page: the call whose search URL it was last sent to, 0 for none
    callPc,       \* per call: idle, launch, newPage, setup, goto, selector, evaluate, done
    callPage,     \* per call: the page it last navigated or read, 0 for none
    callResult    \* per call: the call whose search results it returned, 0 for none or []

sessionVars == <<thisBrowser, thisPage, launches, pageUrl, callPc, callPage, callResult>>

\* the state of the App component of the search UI (Part 8)
VARIABLES
    searchQuery,      \* the text of the search input
    appProducts,      \* products: the products shown
    appLoading,       \* loading
    loadingMore,
    currentPage,
    hasMore,
    totalResults,
    appSearchError,   \* searchError: an error message is shown
    requests          \* the fetch calls made so far, in order, with their responses

appVars == <<searchQuery, appProducts, appLoading, loadingMore, currentPage, hasMore,
             totalResults, appSearchError, requests>>

\* the variables of Parts 6 and later
restVars == <<sessionVars, appVars>>

vars == <<orchVars, adapterVars, uiVars, extractVars, restVars>>

\* ------------------------------------------------------------------------
\* the results object
\* ------------------------------------------------------------------------
Keys(obj) == {obj[i][1] : i \in 1..Len(obj)}

Get(obj, key) == LET i == CHOOSE i \in 1..Len(obj) : obj[i][1] = key IN obj[i][2]

\* (mutant) an empty list is not stored
Put_skipEmpty(obj, key, value) ==
    IF value = <<>> THEN obj
    ELSE IF key \in Keys(obj)
    THEN [i \in 1..Len(obj) |-> IF obj[i][1] = key THEN <<key, value>> ELSE obj[i]]
    ELSE Append(obj, <<key, value>>)

\* obj[key] = value: a new key is appended, an existing key keeps its place
Put(obj, key, value) ==
    IF key \in Keys(obj)
    THEN [i \in 1..Len(obj) |-> IF obj[i][1] = key THEN <<key, value>> ELSE obj[i]]
    ELSE Append(obj, <<key, value>>)

RECURSIVE flattenResults(_)
flattenResults(obj) ==
    IF obj = <<>> THEN <<>>
    ELSE obj[1][2] \o flattenResults(Tail(obj))

\* ------------------------------------------------------------------------
\* Init
\* ------------------------------------------------------------------------
OrchestratorInit ==
    /\ entry = None
    /\ args = [query |-> None, store |-> None, command |-> None]
    /\ adapter = [s \in Stores |-> "idle"]
    /\ promises = [s \in Stores |-> None]
    /\ storeValue = [s \in Stores |-> <<>>]
    /\ results = <<>>
    /\ callState = None
    /\ callValue = <<>>
    /\ callError = None
    /\ mainPc = None
    /\ report = None
    /\ closed = FALSE

\* no searchProducts run has started; no browser was launched
AdapterInit ==
    /\ adp = None
    /\ pc = "idle"
    /\ opts = [maxResults |-> 0]
    /\ products = <<>>
    /\ locals = [offset |-> 0]
    /\ cycles = 0
    /\ outcome = None
    /\ returned = <<>>
    /\ caught = None
    /\ browser = "null"

\* const itemsPerPage = 10
itemsPerPage == 10

\* the useState initial values of StoreSearch; nothing was fetched
StoreSearchInit ==
    /\ selectedStore = ""
    /\ allProducts = <<>>
    /\ displayedProducts = <<>>
    /\ loading = FALSE
    /\ searchError = ""
    /\ currentDisplayCount = itemsPerPage
    /\ request = None
    /\ fetches = 0

\* no extraction has run
ExtractInit ==
    /\ extractor = None
    /\ element = <<>>
    /\ extracted = <<>>

\* bound of the model: number of searchProducts calls on the one instance
MaxCalls == 2

Calls == 1..MaxCalls

\* the constructor: this.browser = null; this.page = null; no call yet
SessionInit ==
    /\ thisBrowser = 0
    /\ thisPage = 0
    /\ launches = 0
    /\ pageUrl = [b \in Calls |-> 0]
    /\ callPc = [c \in Calls |-> "idle"]
    /\ callPage = [c \in Calls |-> 0]
    /\ callResult = [c \in Calls |-> 0]

\* the useState initial values of App; no fetch was made
AppInit ==
    /\ searchQuery = ""
    /\ appProducts = <<>>
    /\ appLoading = FALSE
    /\ loadingMore = FALSE
    /\ currentPage = 1
    /\ hasMore = FALSE
    /\ totalResults = 0
    /\ appSearchError = FALSE
    /\ requests = <<>>

Init ==
    /\ OrchestratorInit /\ AdapterInit /\ StoreSearchInit /\ ExtractInit
    /\ SessionInit /\ AppInit

\* ------------------------------------------------------------------------
\* scrapeStore(storeName, query, maxResults): the part up to its await
\* ------------------------------------------------------------------------
\* (mutant) an unknown store falls back to the first registered adapter
scrapeStoreStart_fallback(storeName) ==
    LET scraper == LookupScraper(toLowerCase(storeName)) IN
    IF scraper \in Stores THEN [threw |-> None, invoked |-> scraper]
    ELSE [threw |-> None, invoked |-> scrapers[1]]

\* the result of the synchronous part: the error it throws, or the adapter
\* whose searchProducts it has invoked
scrapeStoreStart(storeName) ==
    LET scraper == LookupScraper(toLowerCase(storeName)) IN
    IF scraper = "undefined" THEN [threw |-> "NotSupported", invoked |-> None]
    ELSE IF scraper = "notAnAdapter" THEN [threw |-> "TypeError", invoked |-> None]
    ELSE [threw |-> None, invoked |-> scraper]

\* a caller invokes scrapeStore directly
ScrapeStore(storeName, query) ==
    /\ entry = None
    /\ entry' = "scrapeStore"
    /\ args' = [query |-> query, store |-> storeName, command |-> None]
    /\ LET r == scrapeStoreStart(storeName) IN
       IF r.threw # None
       THEN /\ callState' = "rejected"
            /\ callError' = r.threw
            /\ UNCHANGED adapter
       ELSE /\ callState' = "pending"
            /\ callError' = None
            /\ adapter' = [adapter EXCEPT ![r.invoked] = "running"]
    /\ UNCHANGED <<promises, storeValue, results, callValue, mainPc, report, closed>>
    /\ UNCHANGED <<adapterVars, uiVars, extractVars, restVars>>

\* the adapter of a direct scrapeStore call settles; scrapeStore resumes
\* after its await and returns the products, or rejects with the error
ScrapeStoreReturn(s, o) ==
    /\ entry \in {"scrapeStore", "main"}
    /\ callState = "pending"
    /\ adapter[s] = "running"
    /\ promises[s] = None
    /\ IF o.threw
       THEN /\ adapter' = [adapter EXCEPT ![s] = "threw"]
            /\ callState' = "rejected"
            /\ callError' = "AdapterError"
            /\ UNCHANGED callValue
       ELSE /\ adapter' = [adapter EXCEPT ![s] = "returned"]
            /\ callState' = "resolved"
            /\ callValue' = ProductsOf(s, o.n)
            /\ UNCHANGED callError
    /\ UNCHANGED <<entry, args, promises, storeValue, results, mainPc, report, closed>>
    /\ UNCHANGED <<adapterVars, uiVars, extractVars, restVars>>

\* ------------------------------------------------------------------------
\* scrapeAllStores(query, maxResults)
\* ------------------------------------------------------------------------
\* the for loop: scrapeStore is called for every entry of this.scrapers and
\* its promise chained; every adapter is invoked before the await
scrapeAllStoresStart ==
    /\ adapter' = [s \in Stores |->
                     IF scrapeStoreStart(s).threw = None THEN "running" ELSE adapter[s]]
    /\ promises' = [s \in Stores |->
                     IF scrapeStoreStart(s).threw = None THEN "pending" ELSE "storeRejected"]
    /\ storeValue' = [s \in Stores |-> <<>>]
    /\ results' = <<>>
    /\ callState' = "pending"
    /\ UNCHANGED <<callValue, callError>>

ScrapeAllStores(query) ==
    /\ entry = None
    /\ entry' = "scrapeAllStores"
    /\ args' = [query |-> query, store |-> None, command |-> None]
    /\ scrapeAllStoresStart
    /\ UNCHANGED <<mainPc, report, closed>>
    /\ UNCHANGED <<adapterVars, uiVars, extractVars, restVars>>

\* one branch: the adapter settles and scrapeStore resumes after its await
BranchScrapeStoreReturn(s, o) ==
    /\ promises[s] = "pending"
    /\ adapter[s] = "running"
    /\ IF o.threw
       THEN /\ adapter' = [adapter EXCEPT ![s] = "threw"]
            /\ promises' = [promises EXCEPT ![s] = "storeRejected"]
            /\ UNCHANGED storeValue
       ELSE /\ adapter' = [adapter EXCEPT ![s] = "returned"]
            /\ promises' = [promises EXCEPT ![s] = "storeFulfilled"]
            /\ storeValue' = [storeValue EXCEPT ![s] = ProductsOf(s, o.n)]
    /\ UNCHANGED <<entry, args, results, callState, callValue, callError, mainPc, report, closed>>
    /\ UNCHANGED <<adapterVars, uiVars, extractVars, restVars>>

\* .then(products => { results[storeName] = products; })
BranchThen(s) ==
    /\ promises[s] = "storeFulfilled"
    /\ results' = Put(results, s, storeValue[s])
    /\ promises' = [promises EXCEPT ![s] = "fulfilled"]
    /\ UNCHANGED <<entry, args, adapter, storeValue, callState, callValue, callError, mainPc, report, closed>>
    /\ UNCHANGED <<adapterVars, uiVars, extractVars, restVars>>

\* (mutant) the callback rethrows the error
catchHandler_rethrow(s) == "rejected"

\* what the .catch callback leaves in the chain's promise
catchHandler(s) == "fulfilled"

\* .catch(error => { console.error(...); results[storeName] = []; })
BranchCatch(s) ==
    /\ promises[s] = "storeRejected"
    /\ LET after == catchHandler(s) IN
       /\ promises' = [promises EXCEPT ![s] = after]
       /\ results' = IF after = "fulfilled" THEN Put(results, s, <<>>) ELSE results
    /\ UNCHANGED <<entry, args, adapter, storeValue, callState, callValue, callError, mainPc, report, closed>>
    /\ UNCHANGED <<adapterVars, uiVars, extractVars, restVars>>

\* (mutant) the first fulfilled chain ends the wait, as Promise.race would
allFulfilled_race == \E s \in Stores : promises[s] = "fulfilled"

\* Promise.all(promises) is fulfilled once every chain is fulfilled
allFulfilled == \A s \in Stores : promises[s] = "fulfilled"

\* Promise.all(promises) is rejected as soon as one chain is rejected
anyRejected == \E s \in Stores : promises[s] = "rejected"

\* await Promise.all(promises) returns or throws; scrapeAllStores finishes
AwaitPromiseAll ==
    /\ callState = "pending"
    /\ \A s \in Stores : promises[s] # None
    /\ anyRejected \/ allFulfilled
    /\ IF anyRejected
       THEN /\ callState' = "rejected"
            /\ callError' = "AdapterError"
            /\ UNCHANGED callValue
       ELSE /\ callState' = "resolved"
            /\ callValue' = results
            /\ UNCHANGED callError
    /\ UNCHANGED <<entry, args, adapter, promises, storeValue, results, mainPc, report, closed>>
    /\ UNCHANGED <<adapterVars, uiVars, extractVars, restVars>>

\* ------------------------------------------------------------------------
\* main(): the command entry point
\* ------------------------------------------------------------------------
Commands == {"search", "help", "bogus"}

Queries == {"milk"}

\* Object.keys(scraper.scrapers).includes(store.toLowerCase())
isSupportedStore(store) == store # None /\ toLowerCase(store) \in Stores

\* main up to its first await; command = None stands for an empty argv,
\* query = None for a missing args[1], store = None for a missing args[2]
Main(command, query, store) ==
    /\ entry = None
    /\ entry' = "main"
    /\ args' = [query |-> query, store |-> store, command |-> command]
    /\ IF command = None
       THEN \* usage is printed before any GroceryScraper exists
            /\ report' = "usage"
            /\ mainPc' = "done"
            /\ UNCHANGED <<adapter, promises, storeValue, results, callState, callValue, callError, closed>>
       ELSE IF command = "search" /\ query = None
       THEN /\ report' = "missingQuery"
            /\ mainPc' = "done"
            /\ closed' = TRUE
            /\ UNCHANGED <<adapter, promises, storeValue, results, callState, callValue, callError>>
       ELSE IF command = "search" /\ isSupportedStore(store)
       THEN /\ report' = None
            /\ mainPc' = "awaitStore"
            /\ adapter' = [adapter EXCEPT ![scrapeStoreStart(store).invoked] = "running"]
            /\ callState' = "pending"
            /\ UNCHANGED <<promises, storeValue, results, callValue, callError, closed>>
       ELSE IF command = "search"
       THEN /\ report' = None
            /\ mainPc' = "awaitAll"
            /\ scrapeAllStoresStart
            /\ UNCHANGED closed
       ELSE /\ report' = IF command = "help" THEN "help" ELSE "unknownCommand"
            /\ mainPc' = "done"
            /\ closed' = TRUE
            /\ UNCHANGED <<adapter, promises, storeValue, results, callState, callValue, callError>>
    /\ UNCHANGED <<adapterVars, uiVars, extractVars, restVars>>

\* the awaited call settles: main prints the results, or its catch prints
\* the error; finally closeAll()
MainResume ==
    /\ mainPc \in {"awaitStore", "awaitAll"}
    /\ callState \in {"resolved", "rejected"}
    /\ report' = IF callState = "resolved" THEN "results" ELSE "error"
    /\ mainPc' = "done"
    /\ closed' = TRUE
    /\ UNCHANGED <<entry, args, adapter, promises, storeValue, results, callState, callValue, callError>>
    /\ UNCHANGED <<adapterVars, uiVars, extractVars, restVars>>

\* ------------------------------------------------------------------------
\* Specification of the orchestrator
\* ------------------------------------------------------------------------
Next ==
    \/ \E n \in StoreNames, q \in Queries \cup {None} : ScrapeStore(n, q)
    \/ \E s \in Stores, o \in Outcomes : ScrapeStoreReturn(s, o)
    \/ \E q \in Queries \cup {None} : ScrapeAllStores(q)
    \/ \E s \in Stores, o \in Outcomes : BranchScrapeStoreReturn(s, o)
    \/ \E s \in Stores : BranchThen(s)
    \/ \E s \in Stores : BranchCatch(s)
    \/ AwaitPromiseAll
    \/ \E c \in Commands \cup {None}, q \in Queries \cup {None}, n \in StoreNames \cup {None} :
         /\ (c = None => q = None)
         /\ (q = None => n = None)
         /\ Main(c, q, n)
    \/ MainResume

Spec == Init /\ [][Next]_vars

(***************************************************************************)
(* Part 2 (specification SpecAdapters): one run of searchProducts of a     *)
(* source adapter.  The source (HTTP API, page, catalog file) is the       *)
(* environment: every response is chosen from a small set.  A raw item is  *)
(* a number k >= 0 (an entry with name k and amount k) or NullItem (an     *)
(* entry the parser cannot read); a product is a record.                   *)
(***************************************************************************)
\* bound of the model: no run starts more than MaxCycles fetch cycles
MaxCycles == 12

\* a null entry of a response array: reading any field of it throws
NullItem == -1

\* what parseProduct returns from its catch block: null
NullProduct == [title |-> NullItem, numericPrice |-> NullItem, productUrl |-> NullItem, store |-> "null"]

\* the maxResults arguments of the calls
Targets == {0, 1, 3}

\* the pages a source answers with
Pages == {<<>>, <<NullItem>>, <<2>>, <<3, NullItem, 1>>}

\* products.sort((a, b) => a.numericPrice - b.numericPrice): insertion of p
\* behind every element that is not greater (the sort is stable)
RECURSIVE insertByPrice(_, _)
insertByPrice(sorted, p) ==
    IF sorted = <<>> THEN <<p>>
    ELSE IF p.numericPrice < Head(sorted).numericPrice THEN <<p>> \o sorted
    ELSE <<Head(sorted)>> \o insertByPrice(Tail(sorted), p)

RECURSIVE sortProductsByPrice(_)
sortProductsByPrice(list) ==
    IF list = <<>> THEN <<>>
    ELSE insertByPrice(sortProductsByPrice(SubSeq(list, 1, Len(list) - 1)), list[Len(list)])

\* the comparator reads a.numericPrice of every element of a list of two or
\* more: a null element makes the sort throw a TypeError
sortThrows(list) == Len(list) >= 2 /\ \E i \in 1..Len(list) : list[i] = NullProduct

\* list.slice(0, n)
slice(list, n) == IF n <= 0 THEN <<>> ELSE SubSeq(list, 1, IF n < Len(list) THEN n ELSE Len(list))

\* the run ends: searchProducts resolves with list
Resolve(list) ==
    /\ pc' = "done"
    /\ outcome' = "resolved"
    /\ returned' = list

\* ------------------------------------------------------------------------
\* AldiScraper (REST API)
\* ------------------------------------------------------------------------
\* const limit = 30: API limit per request
limit == 30

\* AldiScraper.parseProduct: the product of an item, null when it throws
aldiParseProduct(item) ==
    IF item = NullItem THEN NullProduct
    ELSE [title |-> item, numericPrice |-> item, productUrl |-> item, store |-> "Aldi"]

\* for (const item of data.data): stop at maxResults, push what parsed
RECURSIVE aldiPushItems(_, _, _)
aldiPushItems(list, items, maxResults) ==
    IF items = <<>> \/ Len(list) >= maxResults THEN list
    ELSE LET product == aldiParseProduct(Head(items)) IN
         aldiPushItems(IF product # NullProduct THEN Append(list, product) ELSE list,
                       Tail(items), maxResults)

\* meta.pagination.totalCount as the API declares it
AldiTotals == {0, 2 * limit, (MaxCycles + 1) * limit}

\* what axios.get can do
AldiResponses ==
    {[threw |-> TRUE, status |-> 0, items |-> <<>>, total |-> 0],
     [threw |-> FALSE, status |-> 204, items |-> <<>>, total |-> 0]}
    \cup {[threw |-> FALSE, status |-> 200, items |-> i, total |-> t] : i \in Pages, t \in AldiTotals}

\* searchProducts up to its first axios.get
AldiSearchProducts(maxResults) ==
    /\ adp = None /\ entry = None
    /\ adp' = "aldi"
    /\ opts' = [maxResults |-> maxResults]
    /\ products' = <<>>
    /\ locals' = [offset |-> 0]
    /\ IF 0 < maxResults
       THEN /\ pc' = "await"
            /\ outcome' = "pending"
            /\ cycles' = 1
            /\ UNCHANGED returned
       ELSE /\ Resolve(sortProductsByPrice(<<>>))
            /\ UNCHANGED cycles
    /\ UNCHANGED <<caught, browser, orchVars, uiVars, extractVars, restVars>>

\* axios.get settles: the rest of one iteration of the while loop, the
\* loop test, and either the next request or the end of the run
AldiResponse(r) ==
    /\ adp = "aldi" /\ pc = "await"
    /\ IF r.threw
       THEN \* catch (error) { console.error(...); throw error; }
            /\ pc' = "done"
            /\ outcome' = "rejected"
            /\ caught' = "logged"
            /\ UNCHANGED <<products, locals, cycles, returned>>
       ELSE IF r.status # 200 \/ r.items = <<>>
       THEN /\ Resolve(sortProductsByPrice(products))
            /\ UNCHANGED <<products, locals, cycles, caught>>
       ELSE LET pushed == aldiPushItems(products, r.items, opts.maxResults)
                offset == locals.offset + limit
            IN /\ products' = pushed
               /\ locals' = [offset |-> offset]
               /\ UNCHANGED caught
               /\ IF offset >= r.total \/ ~(Len(pushed) < opts.maxResults)
                  THEN /\ Resolve(sortProductsByPrice(pushed))
                       /\ UNCHANGED cycles
                  ELSE /\ cycles < MaxCycles
                       /\ cycles' = cycles + 1
                       /\ UNCHANGED <<pc, outcome, returned>>
    /\ UNCHANGED <<adp, opts, browser, orchVars, uiVars, extractVars, restVars>>

\* ------------------------------------------------------------------------
\* IGAScraper (REST API, scrapers/iga.js)
\* ------------------------------------------------------------------------
\* IGAScraper.parseProduct: the product of an item, null when it throws
igaParseProduct(item) ==
    IF item = NullItem THEN NullProduct
    ELSE [title |-> item, numericPrice |-> item, productUrl |-> item, store |-> "IGA"]

\* for (const item of data.items): stop at maxResults, push parseProduct(item)
RECURSIVE igaPushItems(_, _, _)
igaPushItems(list, items, maxResults) ==
    IF items = <<>> \/ Len(list) >= maxResults THEN list
    ELSE igaPushItems(Append(list, igaParseProduct(Head(items))), Tail(items), maxResults)

IgaResponses ==
    {[threw |-> TRUE, status |-> 0, items |-> <<>>],
     [threw |-> FALSE, status |-> 204, items |-> <<>>]}
    \cup {[threw |-> FALSE, status |-> 200, items |-> i] : i \in Pages}

\* searchProducts up to its axios.get
IgaApiSearchProducts(maxResults) ==
    /\ adp = None /\ entry = None
    /\ adp' = "igaApi"
    /\ opts' = [maxResults |-> maxResults]
    /\ products' = <<>>
    /\ pc' = "await"
    /\ outcome' = "pending"
    /\ cycles' = 1
    /\ UNCHANGED <<locals, returned, caught, browser, orchVars, uiVars, extractVars, restVars>>

\* axios.get settles: the rest of searchProducts
IgaApiResponse(r) ==
    /\ adp = "igaApi" /\ pc = "await"
    /\ IF r.threw
       THEN /\ caught' = "logged"
            /\ Resolve(<<>>)
            /\ UNCHANGED products
       ELSE IF r.status # 200 \/ r.items = <<>>
       THEN /\ Resolve(<<>>)
            /\ UNCHANGED <<products, caught>>
       ELSE LET pushed == igaPushItems(products, r.items, opts.maxResults) IN
            /\ products' = pushed
            /\ IF sortThrows(pushed)
               THEN /\ caught' = "logged"
                    /\ Resolve(<<>>)
               ELSE /\ Resolve(sortProductsByPrice(pushed))
                    /\ UNCHANGED caught
    /\ locals' = [response |-> r]
    /\ UNCHANGED <<adp, opts, cycles, browser, orchVars, uiVars, extractVars, restVars>>

\* ------------------------------------------------------------------------
\* ColesScraper (local catalog, scrapers/coles.js)
\* ------------------------------------------------------------------------
\* bound of the model: number of records of the catalog file
MaxCatalog == 3

\* a string is a sequence of characters; String.prototype.toLowerCase
lowerChar(c) ==
    CASE c = "A" -> "a"
      [] c = "B" -> "b"
      [] c = "C" -> "c"
      [] c = "D" -> "d"
      [] c = "E" -> "e"
      [] c = "F" -> "f"
      [] c = "G" -> "g"
      [] c = "H" -> "h"
      [] c = "I" -> "i"
      [] c = "J" -> "j"
      [] c = "K" -> "k"
      [] c = "L" -> "l"
      [] c = "M" -> "m"
      [] c = "N" -> "n"
      [] c = "O" -> "o"
      [] c = "P" -> "p"
      [] c = "Q" -> "q"
      [] c = "R" -> "r"
      [] c = "S" -> "s"
      [] c = "T" -> "t"
      [] c = "U" -> "u"
      [] c = "V" -> "v"
      [] c = "W" -> "w"
      [] c = "X" -> "x"
      [] c = "Y" -> "y"
      [] c = "Z" -> "z"
      [] OTHER -> c

lower(str) == [i \in 1..Len(str) |-> lowerChar(str[i])]

\* String.prototype.includes
includes(str, part) ==
    \E i \in 0..(Len(str) - Len(part)) : SubSeq(str, i + 1, i + Len(part)) = part

\* the records of the merged catalog; the last one has no title
CatalogRecords ==
    {[title |-> <<"M", "i", "l", "k">>, hasTitle |-> TRUE],
     [title |-> <<"o", "a", "t", "m", "i", "l", "k">>, hasTitle |-> TRUE],
     [title |-> <<"s", "i", "l", "k">>, hasTitle |-> TRUE],
     [title |-> <<>>, hasTitle |-> FALSE]}

Catalogs == UNION {[1..n -> CatalogRecords] : n \in 0..MaxCatalog}

\* what fs.readFile and JSON.parse can do
CatalogFiles ==
    {[error |-> "ENOENT", allProducts |-> <<>>], [error |-> "SyntaxError", allProducts |-> <<>>]}
    \cup {[error |-> None, allProducts |-> c] : c \in Catalogs}

ColesQueries == {<<"m", "i", "l", "k">>, <<"I", "L", "K">>}

\* (mutant) the filter compares the title and the query as they are
RECURSIVE colesFilter_caseSensitive(_, _)
colesFilter_caseSensitive(records, query) ==
    IF records = <<>> THEN <<>>
    ELSE (IF includes(Head(records).title, query)
          THEN <<Head(records)>> ELSE <<>>) \o colesFilter_caseSensitive(Tail(records), query)

\* allProducts.filter(product => product.title.toLowerCase().includes(query.toLowerCase()))
RECURSIVE colesFilter(_, _)
colesFilter(records, query) ==
    IF records = <<>> THEN <<>>
    ELSE (IF includes(lower(Head(records).title), lower(query))
          THEN <<Head(records)>> ELSE <<>>) \o colesFilter(Tail(records), query)

\* the filter callback throws on a record whose title is undefined
colesFilterThrows(records) == \E i \in 1..Len(records) : ~records[i].hasTitle

\* searchProducts up to its readFile
ColesSearchProducts(query, maxResults) ==
    /\ adp = None /\ entry = None
    /\ adp' = "coles"
    /\ opts' = [maxResults |-> maxResults, query |-> query]
    /\ products' = <<>>
    /\ pc' = "await"
    /\ outcome' = "pending"
    /\ UNCHANGED <<locals, cycles, returned, caught, browser, orchVars, uiVars, extractVars, restVars>>

\* readFile settles: the rest of searchProducts
ColesFileRead(file) ==
    /\ adp = "coles" /\ pc = "await"
    /\ IF file.error # None \/ colesFilterThrows(file.allProducts)
       THEN /\ caught' = "logged"
            /\ Resolve(<<>>)
       ELSE /\ Resolve(slice(colesFilter(file.allProducts, opts.query), opts.maxResults))
            /\ UNCHANGED caught
    /\ locals' = [file |-> file]
    /\ UNCHANGED <<adp, opts, products, cycles, browser, orchVars, uiVars, extractVars, restVars>>

\* ------------------------------------------------------------------------
\* WoolworthsScraper (browser, scroll loop; grocery_scraper/scrapers/woolworths.js)
\* ------------------------------------------------------------------------
\* const maxScrollAttempts = 5
maxScrollAttempts == 5

\* how init, page.goto and waitForSelector can end
Navigations == {"launchFails", "gotoFails", "selectorTimeout", "ok"}

\* the try block inside productElements.forEach: an element that cannot be
\* read is logged and left out
RECURSIVE woolScrape(_)
woolScrape(elements) ==
    IF elements = <<>> THEN <<>>
    ELSE (IF Head(elements) = NullItem THEN <<>>
          ELSE <<[title |-> Head(elements), numericPrice |-> Head(elements),
                  productUrl |-> Head(elements), store |-> "Woolworths"]>>)
         \o woolScrape(Tail(elements))

\* newProducts.filter(np => !products.some(p => p.productUrl === np.productUrl))
uniqueNewProducts(list, newProducts) ==
    SelectSeq(newProducts,
              LAMBDA np : ~\E i \in 1..Len(list) : list[i].productUrl = np.productUrl)

\* what page.evaluate returns after a scroll: the tiles now in the DOM (two
\* tiles of one scan may link to the same product)
Doms == Pages \cup {<<2, 1>>, <<3, NullItem, 1, 2>>, <<1, 1>>, <<4>>, <<5, 4>>}

\* the maxResults arguments of the calls of the scroll-driven adapter: one
\* of them is above what maxScrollAttempts cycles can collect
WoolTargets == Targets \cup {6}

\* (mutant) a cycle without growth does not stop the loop
noGrowth_ignored(count, lastProductCount) == FALSE

\* if (products.length === lastProductCount) break
noGrowth(count, lastProductCount) == count = lastProductCount

\* searchProducts up to the first page.evaluate of the loop
WoolSearchProducts(maxResults, nav) ==
    /\ adp = None /\ entry = None
    /\ adp' = "woolworths"
    /\ opts' = [maxResults |-> maxResults]
    /\ products' = <<>>
    /\ locals' = [lastProductCount |-> 0, scrollAttempts |-> 0]
    /\ browser' = IF nav = "launchFails" THEN "null" ELSE "open"
    /\ IF nav # "ok"
       THEN /\ caught' = "logged"
            /\ Resolve(<<>>)
            /\ UNCHANGED cycles
       ELSE IF 0 < maxResults /\ 0 < maxScrollAttempts
       THEN /\ pc' = "await"
            /\ outcome' = "pending"
            /\ cycles' = 1
            /\ UNCHANGED <<returned, caught>>
       ELSE /\ Resolve(slice(<<>>, maxResults))
            /\ UNCHANGED <<cycles, caught>>
    /\ UNCHANGED <<orchVars, uiVars, extractVars, restVars>>

\* page.evaluate settles: the rest of one iteration (filter, push, no-growth
\* test, scroll), the loop test, and the next evaluate or the end of the run
WoolEvaluate(threw, dom, scrollThrows) ==
    /\ adp = "woolworths" /\ pc = "await"
    /\ IF threw
       THEN /\ caught' = "logged"
            /\ Resolve(<<>>)
            /\ UNCHANGED <<products, locals, cycles>>
       ELSE LET pushed == products \o uniqueNewProducts(products, woolScrape(dom))
                attempts == locals.scrollAttempts + 1
            IN /\ products' = pushed
               /\ IF noGrowth(Len(pushed), locals.lastProductCount)
                  THEN /\ Resolve(slice(pushed, opts.maxResults))
                       /\ UNCHANGED <<locals, cycles, caught>>
                  ELSE IF scrollThrows
                  THEN /\ caught' = "logged"
                       /\ Resolve(<<>>)
                       /\ locals' = [lastProductCount |-> Len(pushed),
                                     scrollAttempts |-> locals.scrollAttempts]
                       /\ UNCHANGED cycles
                  ELSE /\ locals' = [lastProductCount |-> Len(pushed), scrollAttempts |-> attempts]
                       /\ UNCHANGED caught
                       /\ IF Len(pushed) < opts.maxResults /\ attempts < maxScrollAttempts
                          THEN /\ cycles < MaxCycles
                               /\ cycles' = cycles + 1
                               /\ UNCHANGED <<pc, outcome, returned>>
                          ELSE /\ Resolve(slice(pushed, opts.maxResults))
                               /\ UNCHANGED cycles
    /\ UNCHANGED <<adp, opts, browser, orchVars, uiVars, extractVars, restVars>>

\* ------------------------------------------------------------------------
\* WoolworthsScraper (browser, load-more loop; the cheerio variant)
\* ------------------------------------------------------------------------
\* $('a[href*="/product/"]').each(...): stop at maxResults, push the links
\* that have a name and a price
RECURSIVE loadMorePush(_, _, _)
loadMorePush(list, links, maxResults) ==
    IF links = <<>> \/ Len(list) >= maxResults THEN list
    ELSE loadMorePush(IF Head(links) # NullItem
                      THEN Append(list, [title |-> Head(links), numericPrice |-> Head(links),
                                         productUrl |-> Head(links), store |-> "Woolworths"])
                      ELSE list,
                      Tail(links), maxResults)

\* searchProducts up to the first page.content of the loop
LoadMoreSearchProducts(maxResults, nav) ==
    /\ adp = None /\ entry = None
    /\ adp' = "woolworthsLoadMore"
    /\ opts' = [maxResults |-> maxResults]
    /\ products' = <<>>
    /\ locals' = [currentResults |-> 0]
    /\ browser' = IF nav = "launchFails" THEN "null" ELSE "open"
    /\ IF nav # "ok"
       THEN /\ caught' = "logged"
            /\ Resolve(<<>>)
            /\ UNCHANGED cycles
       ELSE IF 0 < maxResults
       THEN /\ pc' = "await"
            /\ outcome' = "pending"
            /\ cycles' = 1
            /\ UNCHANGED <<returned, caught>>
       ELSE /\ Resolve(slice(<<>>, maxResults))
            /\ UNCHANGED <<cycles, caught>>
    /\ UNCHANGED <<orchVars, uiVars, extractVars, restVars>>

\* page.content settles: the rest of one iteration (extract, look for the
\* load-more button, click it), the loop test, and the next page.content or
\* the end of the run
LoadMoreContent(threw, links, loadMoreButton, clickThrows) ==
    /\ adp = "woolworthsLoadMore" /\ pc = "await"
    /\ IF threw
       THEN /\ caught' = "logged"
            /\ Resolve(<<>>)
            /\ UNCHANGED <<products, locals, cycles>>
       ELSE LET pushed == loadMorePush(products, links, opts.maxResults) IN
            /\ products' = pushed
            /\ locals' = [currentResults |-> Len(pushed)]
            /\ IF loadMoreButton /\ Len(pushed) < opts.maxResults
               THEN IF clickThrows
                    THEN /\ caught' = "logged"
                         /\ Resolve(<<>>)
                         /\ UNCHANGED cycles
                    ELSE /\ cycles < MaxCycles
                         /\ cycles' = cycles + 1
                         /\ UNCHANGED <<pc, outcome, returned, caught>>
               ELSE /\ Resolve(slice(pushed, opts.maxResults))
                    /\ UNCHANGED <<cycles, caught>>
    /\ UNCHANGED <<adp, opts, browser, orchVars, uiVars, extractVars, restVars>>

\* ------------------------------------------------------------------------
\* Specification of the adapters
\* ------------------------------------------------------------------------
\* close(): `if (this.browser) { await this.browser.close(); this.browser = null; }`;
\* no searchProducts calls it, the caller does (closeAll) once the run has ended
Close ==
    /\ adp \in {"woolworths", "woolworthsLoadMore"} /\ pc = "done"
    /\ browser = "open"
    /\ browser' = "null"
    /\ UNCHANGED <<adp, pc, opts, products, locals, cycles, outcome, returned, caught>>
    /\ UNCHANGED <<orchVars, uiVars, extractVars, restVars>>

NextAdapters ==
    \/ \E m \in Targets : AldiSearchProducts(m)
    \/ \E r \in AldiResponses : AldiResponse(r)
    \/ \E m \in Targets : IgaApiSearchProducts(m)
    \/ \E r \in IgaResponses : IgaApiResponse(r)
    \/ \E q \in ColesQueries, m \in Targets : ColesSearchProducts(q, m)
    \/ \E f \in CatalogFiles : ColesFileRead(f)
    \/ \E m \in WoolTargets, n \in Navigations : WoolSearchProducts(m, n)
    \/ \E t \in BOOLEAN, d \in Doms, st \in BOOLEAN : WoolEvaluate(t, d, st)
    \/ \E m \in Targets, n \in Navigations : LoadMoreSearchProducts(m, n)
    \/ \E t \in BOOLEAN, l \in Pages, b \in BOOLEAN, ct \in BOOLEAN : LoadMoreContent(t, l, b, ct)
    \/ Close

SpecAdapters == Init /\ [][NextAdapters]_vars

(***************************************************************************)
(* Part 3 (specification SpecIga2): one run of searchProducts of the       *)
(* paginated browser IGAScraper (scrapers/iga2.js).  A raw product link is *)
(* a name k >= 1, or NullItem for a link whose image has no alt text.      *)
(***************************************************************************)
\* bound of the model: no run starts more than MaxNavs page navigations
MaxNavs == 1000

\* bound of the model: the pages after the first MaxVaried are drawn from DeepPages
MaxVaried == 2

\* the maxPages value the page-limit test exempts
Unlimited == 999

\* the product links of a search page
RawPages == {<<>>, <<NullItem>>, <<1>>, <<1, 2, 1>>, <<2, 3>>}

DeepPages == {<<>>, <<1>>}

\* the second argument of searchProducts, as a number
NumericArgs == {0, 1, 2, 3, 5}

\* the second argument of searchProducts, as an options object; 0 stands
\* for a missing field
OptionArgs ==
    [maxPages : {0, 1, 2, 3, Unlimited}, maxResults : {0, 3, 5},
     specificPage : {0, 2}, interactive : BOOLEAN]

\* mode detection; numberArg keeps the second argument when the caller
\* passed a number (as scrapeStore does with maxResults)
iga2Options(isNumber, n, o) ==
    IF isNumber
    THEN IF n > 2
         THEN [maxPages |-> 2, maxResults |-> n, interactive |-> FALSE, specificPage |-> 0,
               pagesArg |-> 0, resultsArg |-> n, numberArg |-> n]
         ELSE [maxPages |-> n, maxResults |-> 0, interactive |-> FALSE, specificPage |-> 0,
               pagesArg |-> n, resultsArg |-> 0, numberArg |-> n]
    ELSE [maxPages |-> IF o.maxPages = 0 THEN 1 ELSE o.maxPages,
          maxResults |-> o.maxResults, interactive |-> o.interactive,
          specificPage |-> o.specificPage,
          pagesArg |-> o.maxPages, resultsArg |-> o.maxResults, numberArg |-> 0]

\* _parseProducts: the links that have a name, the first of each name
RECURSIVE parseProducts(_, _)
parseProducts(links, seen) ==
    IF links = <<>> THEN <<>>
    ELSE IF Head(links) = NullItem \/ Head(links) \in seen
    THEN parseProducts(Tail(links), seen)
    ELSE <<[title |-> Head(links), numericPrice |-> Head(links), productUrl |-> 0, store |-> "IGA"]>>
         \o parseProducts(Tail(links), seen \cup {Head(links)})

\* if (maxPages > 0 && maxPages !== 999 && page > maxPages) break
pageLimitReached(maxPages, page) ==
    maxPages > 0 /\ maxPages # Unlimited /\ page > maxPages

\* if (maxResults && products.length >= maxResults) break
targetReached(maxResults, list) == maxResults # 0 /\ Len(list) >= maxResults

\* apply the maxResults limit and return
iga2Finish(list) ==
    Resolve(IF opts.maxResults # 0 /\ Len(list) > opts.maxResults
            THEN slice(list, opts.maxResults) ELSE list)

\* searchProducts up to its first page.goto
Iga2SearchProducts(isNumber, n, o, launchOk) ==
    /\ adp = None /\ entry = None
    /\ adp' = "iga2"
    /\ opts' = iga2Options(isNumber, n, o)
    /\ products' = <<>>
    /\ locals' = [page |-> 1, pageProducts |-> <<>>, stoppedBy |-> None]
    /\ IF ~launchOk
       THEN /\ browser' = "null"
            /\ caught' = "logged"
            /\ Resolve(<<>>)
            /\ UNCHANGED cycles
       ELSE /\ browser' = "open"
            /\ pc' = IF opts'.specificPage # 0 THEN "awaitSpecific" ELSE "await"
            /\ outcome' = "pending"
            /\ cycles' = 1
            /\ UNCHANGED <<returned, caught>>
    /\ UNCHANGED <<orchVars, uiVars, extractVars, restVars>>

\* the specific page has loaded: the rest of searchProducts
Iga2SpecificPage(threw, links) ==
    /\ adp = "iga2" /\ pc = "awaitSpecific"
    /\ IF threw
       THEN /\ caught' = "logged"
            /\ Resolve(<<>>)
            /\ UNCHANGED <<products, locals>>
       ELSE LET pageProducts == parseProducts(links, {}) IN
            /\ products' = pageProducts
            /\ locals' = [locals EXCEPT !.pageProducts = pageProducts]
            /\ pc' = "done"
            /\ outcome' = "resolved"
            /\ returned' = IF opts.maxResults # 0 /\ Len(pageProducts) > opts.maxResults
                           THEN slice(pageProducts, opts.maxResults) ELSE pageProducts
            /\ UNCHANGED caught
    /\ UNCHANGED <<adp, opts, cycles, browser, orchVars, uiVars, extractVars, restVars>>

\* the pages the source may answer page number page with
PageChoices(page) == IF page <= MaxVaried THEN RawPages ELSE DeepPages

\* page.goto settles and the page is parsed: the rest of one iteration of
\* while (true), the stop checks at the top of the next one, and the next
\* page.goto or the end of the run; continue is the operator's answer to
\* the interactive prompt
Iga2Page(threw, links, continue) ==
    /\ adp = "iga2" /\ pc = "await"
    /\ links \in PageChoices(locals.page)
    /\ IF threw
       THEN /\ caught' = "logged"
            /\ Resolve(<<>>)
            /\ UNCHANGED <<products, locals, cycles>>
       ELSE LET pageProducts == parseProducts(links, {})
                pushed == products \o pageProducts
                asked == /\ opts.interactive
                         /\ (opts.maxPages = 0 \/ locals.page < opts.maxPages)
                         /\ (opts.maxResults = 0 \/ Len(pushed) < opts.maxResults)
                stoppedBy ==
                    IF pageProducts = <<>> THEN "emptyPage"
                    ELSE IF targetReached(opts.maxResults, pushed) THEN "target"
                    ELSE IF asked /\ ~continue THEN "operator"
                    ELSE IF pageLimitReached(opts.maxPages, locals.page + 1) THEN "pageLimit"
                    ELSE None
            IN /\ UNCHANGED caught
               /\ IF pageProducts = <<>>
                  THEN /\ UNCHANGED products
                       /\ locals' = [locals EXCEPT !.pageProducts = pageProducts,
                                                   !.stoppedBy = stoppedBy]
                       /\ iga2Finish(products)
                       /\ UNCHANGED cycles
                  ELSE /\ products' = pushed
                       /\ IF stoppedBy \in {"target", "operator"}
                          THEN /\ locals' = [locals EXCEPT !.pageProducts = pageProducts,
                                                           !.stoppedBy = stoppedBy]
                               /\ iga2Finish(pushed)
                               /\ UNCHANGED cycles
                          ELSE /\ locals' = [page |-> locals.page + 1,
                                             pageProducts |-> pageProducts,
                                             stoppedBy |-> stoppedBy]
                               /\ IF stoppedBy = "pageLimit"
                                  THEN /\ iga2Finish(pushed)
                                       /\ UNCHANGED cycles
                                  ELSE /\ cycles < MaxNavs
                                       /\ cycles' = cycles + 1
                                       /\ UNCHANGED <<pc, outcome, returned>>
    /\ UNCHANGED <<adp, opts, browser, orchVars, uiVars, extractVars, restVars>>

NextIga2 ==
    \/ \E n \in NumericArgs, ok \in BOOLEAN :
         Iga2SearchProducts(TRUE, n, CHOOSE o \in OptionArgs : TRUE, ok)
    \/ \E o \in OptionArgs, ok \in BOOLEAN : Iga2SearchProducts(FALSE, 0, o, ok)
    \/ \E t \in BOOLEAN, l \in RawPages : Iga2SpecificPage(t, l)
    \/ \E t \in BOOLEAN, l \in RawPages, c \in BOOLEAN : Iga2Page(t, l, c)

SpecIga2 == Init /\ [][NextIga2]_vars

(***************************************************************************)
(* Part 4 (specification SpecStoreSearch): the StoreSearch component of    *)
(* the front end.  React state is the uiVars; an event handler or the      *)
(* continuation of an await is one action; the API server is the           *)
(* environment.  A handler can run only when the control it is attached to *)
(* is rendered and enabled.                                                *)
(***************************************************************************)
\* bound of the model: number of searches one session issues
MaxFetches == 3

\* the ids of the stores offered in the select
UiStores == {"coles", "aldi", "harris"}

\* the lengths of the product lists the API answers with
UiResultSizes == {0, 4, 10, 12, 25}

\* what the fetch of handleSearch can end with: a network error, a
\* response that is not ok, success: false, or success: true with products
UiResponses ==
    {[ok |-> FALSE, n |-> 0]} \cup {[ok |-> TRUE, n |-> n] : n \in UiResultSizes}

\* onValueChange={setSelectedStore}
SetSelectedStore(s) ==
    /\ selectedStore' = s
    /\ UNCHANGED <<allProducts, displayedProducts, loading, searchError,
                   currentDisplayCount, request, fetches>>
    /\ UNCHANGED <<orchVars, adapterVars, extractVars, restVars>>

\* handleSearch up to its await fetch; the Search button is
\* disabled={loading || !selectedStore}
HandleSearch ==
    /\ ~loading /\ selectedStore # ""
    /\ fetches < MaxFetches
    /\ loading' = TRUE
    /\ allProducts' = <<>>
    /\ displayedProducts' = <<>>
    /\ currentDisplayCount' = itemsPerPage
    /\ searchError' = ""
    /\ request' = selectedStore
    /\ fetches' = fetches + 1
    /\ UNCHANGED selectedStore
    /\ UNCHANGED <<orchVars, adapterVars, extractVars, restVars>>

\* the fetch settles: the rest of handleSearch, with its catch and finally
HandleSearchResponse(r) ==
    /\ request # None
    /\ IF r.ok
       THEN LET fetched == ProductsOf(request, r.n) IN
            /\ allProducts' = fetched
            /\ displayedProducts' = slice(fetched, itemsPerPage)
            /\ currentDisplayCount' = IF itemsPerPage < Len(fetched) THEN itemsPerPage ELSE Len(fetched)
            /\ UNCHANGED searchError
       ELSE /\ allProducts' = <<>>
            /\ displayedProducts' = <<>>
            /\ searchError' = "Search failed"
            /\ UNCHANGED currentDisplayCount
    /\ loading' = FALSE
    /\ request' = None
    /\ UNCHANGED <<selectedStore, fetches>>
    /\ UNCHANGED <<orchVars, adapterVars, extractVars, restVars>>

\* (mutant) load more shows the next window instead of a longer prefix
loadMoreSlice_window(list, count, newDisplayCount) ==
    IF count >= Len(list) THEN <<>>
    ELSE SubSeq(list, count + 1, IF newDisplayCount < Len(list) THEN newDisplayCount ELSE Len(list))

\* allProducts.slice(0, newDisplayCount)
loadMoreSlice(list, count, newDisplayCount) == slice(list, newDisplayCount)

\* the Load More button is rendered when !loading, displayedProducts is not
\* empty and currentDisplayCount < allProducts.length
loadMoreRendered ==
    ~loading /\ Len(displayedProducts) > 0 /\ currentDisplayCount < Len(allProducts)

\* handleLoadMore
HandleLoadMore ==
    /\ loadMoreRendered
    /\ LET newDisplayCount == currentDisplayCount + itemsPerPage IN
       /\ displayedProducts' = loadMoreSlice(allProducts, currentDisplayCount, newDisplayCount)
       /\ currentDisplayCount' = newDisplayCount
    /\ UNCHANGED <<selectedStore, allProducts, loading, searchError, request, fetches>>
    /\ UNCHANGED <<orchVars, adapterVars, extractVars, restVars>>

NextStoreSearch ==
    \/ \E s \in UiStores : SetSelectedStore(s)
    \/ HandleSearch
    \/ \E r \in UiResponses : HandleSearchResponse(r)
    \/ HandleLoadMore

SpecStoreSearch == Init /\ [][NextStoreSearch]_vars

(***************************************************************************)
(* Part 5 (specification SpecExtract): the extraction functions that turn  *)
(* a raw item, tile or container into product fields.  A string is a       *)
(* sequence of one-character strings; a text is a sequence of              *)
(* whitespace-separated words.  A number is an amount in cents; Infinity   *)
(* and NaN are the two IEEE values the code produces besides amounts.      *)
(***************************************************************************)
\* Number.POSITIVE_INFINITY, above every amount
Infinity == 1000000000

\* NaN: every comparison with it is false
NaN == -1000000000

\* null / undefined where a string is expected
NullText == <<"null">>

\* F(v) with v evaluated once, before F is applied
With(v, F(_)) == CHOOSE r \in {F(x) : x \in {v}} : TRUE

\* JavaScript truthiness of a string-or-null and of a number
truthy(str) == str # NullText /\ str # <<>>

truthyNumber(x) == x # 0 /\ x # NaN

isDigit(c) == c \in {"0", "1", "2", "3", "4", "5", "6", "7", "8", "9"}

digitValue(c) ==
    CASE c = "0" -> 0 [] c = "1" -> 1 [] c = "2" -> 2 [] c = "3" -> 3 [] c = "4" -> 4
      [] c = "5" -> 5 [] c = "6" -> 6 [] c = "7" -> 7 [] c = "8" -> 8 [] c = "9" -> 9

\* the longest prefix of str made of digits
RECURSIVE digitsPrefix(_)
digitsPrefix(str) ==
    IF str = <<>> \/ ~isDigit(Head(str)) THEN <<>>
    ELSE <<Head(str)>> \o digitsPrefix(Tail(str))

\* the value of a string of digits
RECURSIVE digitsValue(_, _)
digitsValue(digits, acc) ==
    IF digits = <<>> THEN acc
    ELSE digitsValue(Tail(digits), 10 * acc + digitValue(Head(digits)))

\* String.prototype.trimStart
RECURSIVE trimStart(_)
trimStart(str) == IF str # <<>> /\ Head(str) = " " THEN trimStart(Tail(str)) ELSE str

\* parseFloat: optional sign, digits, optional fraction; NaN when there is
\* no digit; what follows the number is ignored.  The value is in cents
\* (decimals after the second are dropped: the amounts of the model have
\* at most two)
parseFloat(str) ==
    LET s1 == trimStart(str)
        negative == s1 # <<>> /\ Head(s1) = "-"
        s2 == IF s1 # <<>> /\ Head(s1) \in {"-", "+"} THEN Tail(s1) ELSE s1
    IN With(digitsPrefix(s2), LAMBDA int :
       With(IF Len(int) < Len(s2) /\ s2[Len(int) + 1] = "."
            THEN digitsPrefix(SubSeq(s2, Len(int) + 2, Len(s2))) ELSE <<>>, LAMBDA frac :
       LET cents == 100 * digitsValue(int, 0)
                    + (IF Len(frac) >= 1 THEN 10 * digitValue(frac[1]) ELSE 0)
                    + (IF Len(frac) >= 2 THEN digitValue(frac[2]) ELSE 0)
       IN IF int = <<>> /\ frac = <<>> THEN NaN
          ELSE IF negative THEN 0 - cents ELSE cents))

\* str.replace(/[$,]/g, '')
stripCurrency(str) == SelectSeq(str, LAMBDA c : c \notin {"$", ","})

\* str.replace(/[^0-9.]/g, '')
keepNumeric(str) == SelectSeq(str, LAMBDA c : isDigit(c) \/ c = ".")

\* parsePrice of the REST-API adapters: Infinity for a missing price, and
\* parseFloat(...) || Infinity otherwise
parsePrice(priceStr) ==
    IF ~truthy(priceStr) THEN Infinity
    ELSE With(parseFloat(stripCurrency(priceStr)), LAMBDA numericPrice :
         IF truthyNumber(numericPrice) THEN numericPrice ELSE Infinity)

\* x || null for a string
orNull(str) == IF truthy(str) THEN str ELSE NullText

\* the display prices the APIs send
PriceDisplays == {NullText, <<"$", "4", ".", "5", "0">>, <<"$", "3", ".", "2", "0">>, <<"$", "0", ".", "0", "0">>, <<"N", "/", "A">>, <<"$", "1", ",", "2", "0", "0", ".", "0", "0">>}

WasPriceDisplays == {NullText, <<"$", "5", ".", "0", "0">>}

\* the items of an Aldi response: item.name, item.price.amountRelevantDisplay,
\* item.price.wasPriceDisplay
AldiItems ==
    [name : {<<"M", "i", "l", "k">>}, amountRelevantDisplay : PriceDisplays, wasPriceDisplay : WasPriceDisplays]

\* AldiScraper.parseProduct, field by field, for an item that can be read
aldiParseFields(item) ==
    LET currentPrice == orNull(item.amountRelevantDisplay)
        wasPrice == orNull(item.wasPriceDisplay)
    IN [title |-> IF truthy(item.name) THEN item.name ELSE <<"U", "n", "k", "n", "o", "w", "n", " ", "P", "r", "o", "d", "u", "c", "t">>,
        store |-> "Aldi",
        price |-> IF truthy(wasPrice) THEN wasPrice ELSE currentPrice,
        discountedPrice |-> IF truthy(wasPrice) THEN currentPrice ELSE NullText,
        discount |-> IF truthy(wasPrice) THEN wasPrice ELSE NullText,
        numericPrice |-> parsePrice(currentPrice)]

\* the for loop of AldiScraper.searchProducts over one response of at most
\* two items, and the sort of its return statement
AldiParseItems(items) ==
    /\ extractor = None
    /\ extractor' = "aldi"
    /\ element' = items
    /\ extracted' = sortProductsByPrice([i \in 1..Len(items) |-> aldiParseFields(items[i])])
    /\ UNCHANGED <<orchVars, adapterVars, uiVars, restVars>>

\* the items of an IGA API response whose price is an object: item.name,
\* item.price.current, item.price.was
IgaItems == [name : {<<"O", "a", "t", "s">>}, current : PriceDisplays, was : WasPriceDisplays]

\* IGAScraper.parseProduct (scrapers/iga.js), field by field, for an item
\* that can be read
igaParseFields(item) ==
    LET currentPrice == orNull(item.current)
        wasPrice == orNull(item.was)
    IN [title |-> IF truthy(item.name) THEN item.name ELSE <<"U", "n", "k", "n", "o", "w", "n", " ", "P", "r", "o", "d", "u", "c", "t">>,
        store |-> "IGA",
        price |-> IF truthy(wasPrice) THEN wasPrice ELSE currentPrice,
        discountedPrice |-> IF truthy(wasPrice) THEN currentPrice ELSE NullText,
        discount |-> IF truthy(wasPrice) THEN wasPrice ELSE NullText,
        numericPrice |-> parsePrice(currentPrice)]

\* the for loop of IGAScraper.searchProducts over one response of at most
\* two items, and the sort of its return statement
IgaParseItems(items) ==
    /\ extractor = None
    /\ extractor' = "igaApi"
    /\ element' = items
    /\ extracted' = sortProductsByPrice([i \in 1..Len(items) |-> igaParseFields(items[i])])
    /\ UNCHANGED <<orchVars, adapterVars, uiVars, restVars>>

digitChar(d) ==
    CASE d = 0 -> "0" [] d = 1 -> "1" [] d = 2 -> "2" [] d = 3 -> "3" [] d = 4 -> "4"
      [] d = 5 -> "5" [] d = 6 -> "6" [] d = 7 -> "7" [] d = 8 -> "8" [] d = 9 -> "9"

\* the decimal digits of a natural number
RECURSIVE natToDigits(_)
natToDigits(n) ==
    IF n < 10 THEN <<digitChar(n)>> ELSE natToDigits(n \div 10) \o <<digitChar(n % 10)>>

\* Number.prototype.toFixed(2) of an amount
toFixed(x) ==
    IF x = NaN THEN <<"N", "a", "N">>
    ELSE LET abs == IF x < 0 THEN 0 - x ELSE x IN
         (IF x < 0 THEN <<"-">> ELSE <<>>) \o natToDigits(abs \div 100) \o <<".">>
         \o <<digitChar((abs % 100) \div 10), digitChar(abs % 10)>>

\* a > b and a - b on numbers, as IEEE defines them with NaN
greater(a, b) == a # NaN /\ b # NaN /\ a > b

minus(a, b) == IF a = NaN \/ b = NaN THEN NaN ELSE a - b

\* the text of .price-dollars, .price-cents and .price-was of a product
\* tile; NullText when the tile has no such element
WoolTiles ==
    [title : {<<"M", "i", "l", "k">>}, dollars : {NullText, <<"4">>, <<"c", "a", "l", "l">>}, cents : {NullText, <<"5", "0">>},
     was : {NullText, <<"W", "a", "s", " ", "$", "5", ".", "0", "0">>, <<"W", "a", "s", " ", "$", "3", ".", "0", "0">>}]

\* the body of productElements.forEach for a tile that can be read
woolParseFields(tile) ==
    LET both == tile.dollars # NullText /\ tile.cents # NullText
        priceText == IF both THEN <<"$">> \o tile.dollars \o <<".">> \o tile.cents
                     ELSE IF tile.dollars # NullText THEN <<"$">> \o tile.dollars
                     ELSE <<"N", "/", "A">>
    IN With(IF both THEN parseFloat(tile.dollars \o <<".">> \o tile.cents)
            ELSE IF tile.dollars # NullText THEN parseFloat(tile.dollars)
            ELSE 0, LAMBDA numericPrice :
       With(IF tile.was # NullText THEN parseFloat(keepNumeric(tile.was)) ELSE 0, LAMBDA parsedWas :
       LET originalNumericPrice == IF truthyNumber(parsedWas) THEN parsedWas ELSE 0
           discounted == tile.was # NullText /\ greater(originalNumericPrice, numericPrice)
       IN [title |-> tile.title,
           store |-> "Woolworths",
           price |-> priceText,
           discountedPrice |-> IF discounted THEN priceText ELSE <<>>,
           discount |-> IF discounted
                        THEN <<"S", "a", "v", "e", " ", "$">> \o toFixed(minus(originalNumericPrice, numericPrice))
                        ELSE <<>>,
           numericPrice |-> numericPrice]))

\* one page.evaluate scan of at most two tiles
WoolParseTiles(tiles) ==
    /\ extractor = None
    /\ extractor' = "woolworths"
    /\ element' = tiles
    /\ extracted' = [i \in 1..Len(tiles) |-> woolParseFields(tiles[i])]
    /\ UNCHANGED <<orchVars, adapterVars, uiVars, restVars>>

\* the textContent of a container: its words joined by single spaces
RECURSIVE joinWords(_)
joinWords(text) ==
    IF text = <<>> THEN <<>>
    ELSE IF Len(text) = 1 THEN text[1]
    ELSE text[1] \o <<" ">> \o joinWords(Tail(text))

\* the match of /\$\d+\.\d+/ in a word that starts with the currency sign;
\* the empty string when the word does not match
priceMatch(word) ==
    IF word = <<>> \/ Head(word) # "$" THEN <<>>
    ELSE LET int == digitsPrefix(Tail(word))
             rest == SubSeq(word, Len(int) + 2, Len(word))
             frac == IF rest # <<>> /\ Head(rest) = "." THEN digitsPrefix(Tail(rest)) ELSE <<>>
         IN IF int # <<>> /\ frac # <<>> THEN <<"$">> \o int \o <<".">> \o frac ELSE <<>>

\* containerText.match(/\$\d+\.\d+/g): the matches in text order (empty for null)
RECURSIVE priceMatches(_)
priceMatches(text) ==
    IF text = <<>> THEN <<>>
    ELSE (IF priceMatch(Head(text)) # <<>> THEN <<priceMatch(Head(text))>> ELSE <<>>)
         \o priceMatches(Tail(text))

\* ['was', 'now', 'special', 'save'].some(word => containerLower.includes(word))
hasKeyword(text) ==
    \E word \in {<<"w", "a", "s">>, <<"n", "o", "w">>, <<"s", "p", "e", "c", "i", "a", "l">>, <<"s", "a", "v", "e">>} : includes(lower(joinWords(text)), word)

\* the first number of a price: price.match(/\d+\.?\d*/g)[0], parsed
RECURSIVE firstNumber(_)
firstNumber(str) ==
    IF str = <<>> THEN NaN
    ELSE IF isDigit(Head(str)) THEN parseFloat(str)
    ELSE firstNumber(Tail(str))

\* the texts of the containers around a product link
Iga2Texts ==
    {<<<<"M", "i", "l", "k">>>>,
     <<<<"M", "i", "l", "k">>, <<"2", "L">>, <<"$", "4", ".", "5", "0">>>>,
     <<<<"W", "a", "s">>, <<"$", "5", ".", "0", "0">>, <<"N", "o", "w">>, <<"$", "4", ".", "5", "0">>>>,
     <<<<"N", "o", "w">>, <<"$", "4", ".", "5", "0">>, <<"w", "a", "s">>, <<"$", "5", ".", "0", "0">>>>,
     <<<<"$", "4", ".", "5", "0">>, <<"$", "5", ".", "0", "0">>>>,
     <<<<"S", "p", "e", "c", "i", "a", "l">>, <<"$", "4", ".", "5", "0">>>>,
     <<<<"S", "a", "v", "e">>, <<"o", "n">>, <<"$", "5">>>>}

\* a container: whether it holds a [data-badge="special"] element, and its text
Iga2Containers == [hasSpecial : BOOLEAN, text : Iga2Texts]

\* the first of searchContainers whose text has a currency sign and a price
\* match: the loop breaks there; 0 when there is none
RECURSIVE decidingContainer(_, _)
decidingContainer(searchContainers, i) ==
    IF i > Len(searchContainers) THEN 0
    ELSE IF includes(joinWords(searchContainers[i].text), <<"$">>)
            /\ priceMatches(searchContainers[i].text) # <<>>
    THEN i
    ELSE decidingContainer(searchContainers, i + 1)

\* the special pricing logic for the container that has price matches
iga2PriceLogic(container) ==
    With(priceMatches(container.text), LAMBDA matches :
    With(parseFloat(Tail(matches[1])), LAMBDA price1 :
    With(IF Len(matches) >= 2 THEN parseFloat(Tail(matches[2])) ELSE NaN, LAMBDA price2 :
    IF container.hasSpecial /\ Len(matches) >= 2
    THEN IF price2 < price1
         THEN [price |-> matches[2], discount |-> <<"$">> \o toFixed(price1 - price2)]
         ELSE [price |-> matches[1], discount |-> <<"$">> \o toFixed(price2 - price1)]
    ELSE IF container.hasSpecial
    THEN [price |-> matches[1], discount |-> <<"S", "p", "e", "c", "i", "a", "l", " ", "p", "r", "i", "c", "e">>]
    ELSE IF Len(matches) >= 2
    THEN IF hasKeyword(container.text)
         THEN [price |-> matches[2], discount |-> <<"$">> \o toFixed(price1 - price2)]
         ELSE [price |-> matches[1], discount |-> <<"N", "/", "A">>]
    ELSE [price |-> matches[1], discount |-> <<"N", "/", "A">>])))

\* the body of the for loop of _parseProducts for a link that has a name
iga2ParseFields(name, searchContainers) ==
    With(decidingContainer(searchContainers, 1), LAMBDA i :
    With(IF i = 0 THEN [price |-> <<"N", "/", "A">>, discount |-> <<"N", "/", "A">>]
         ELSE iga2PriceLogic(searchContainers[i]), LAMBDA found :
    With(IF found.price # <<"N", "/", "A">> /\ truthy(found.price) THEN firstNumber(found.price) ELSE NaN,
         LAMBDA numbers :
    [title |-> name,
     store |-> "IGA",
     price |-> found.price,
     discount |-> IF found.discount # <<"N", "/", "A">> THEN found.discount ELSE <<>>,
     discountedPrice |-> IF found.discount # <<"N", "/", "A">> /\ found.price # <<"N", "/", "A">> THEN found.price ELSE <<>>,
     numericPrice |-> IF numbers # NaN THEN numbers ELSE 0])))

\* _parseProducts on one product link and its containers
Iga2ParseLink(searchContainers) ==
    /\ extractor = None
    /\ extractor' = "iga2"
    /\ element' = searchContainers
    /\ extracted' = <<iga2ParseFields(<<"M", "i", "l", "k">>, searchContainers)>>
    /\ UNCHANGED <<orchVars, adapterVars, uiVars, restVars>>

\* the number \d+\.?\d* at the start of str (the empty string when none)
numberPrefix(str) ==
    LET int == digitsPrefix(str)
        rest == SubSeq(str, Len(int) + 1, Len(str))
    IN IF int = <<>> THEN <<>>
       ELSE IF rest # <<>> /\ Head(rest) = "." THEN int \o <<".">> \o digitsPrefix(Tail(rest))
       ELSE int

\* the match of /\$\d+\.?\d*/ in a word that starts with the currency sign
dollarMatch(word) ==
    IF word = <<>> \/ Head(word) # "$" \/ numberPrefix(Tail(word)) = <<>> THEN <<>>
    ELSE <<"$">> \o numberPrefix(Tail(word))

\* cleanPrice.match(/\$\d+\.?\d*/g) || []
RECURSIVE dollarMatches(_)
dollarMatches(text) ==
    IF text = <<>> THEN <<>>
    ELSE (IF dollarMatch(Head(text)) # <<>> THEN <<dollarMatch(Head(text))>> ELSE <<>>)
         \o dollarMatches(Tail(text))

\* cleanPrice.match(/(?:save|off|discount)\s*\$?(\d+\.?\d*)/i): group 1 of
\* the first match, the empty string when there is none
RECURSIVE discountMatch(_)
discountMatch(text) ==
    IF Len(text) < 2 THEN <<>>
    ELSE LET next == IF text[2] # <<>> /\ Head(text[2]) = "$" THEN Tail(text[2]) ELSE text[2] IN
         IF lower(text[1]) \in {<<"s", "a", "v", "e">>, <<"o", "f", "f">>, <<"d", "i", "s", "c", "o", "u", "n", "t">>} /\ numberPrefix(next) # <<>>
         THEN numberPrefix(next)
         ELSE discountMatch(Tail(text))

\* cleanPrice.match(/\$(\d+\.?\d*)\s*(?:ea|each)/i): group 1 of the first
\* match, the empty string when there is none
RECURSIVE eachMatch(_)
eachMatch(text) ==
    IF Len(text) < 2 THEN <<>>
    ELSE IF dollarMatch(text[1]) = text[1] /\ Len(text[2]) >= 2
            /\ lower(SubSeq(text[2], 1, 2)) = <<"e", "a">>
    THEN Tail(text[1])
    ELSE eachMatch(Tail(text))

\* HarrisScraper.parseComplexPrice (mainPrice, discount, originalPrice; the
\* unit price it also extracts is left out)
parseComplexPrice(text) ==
    With(discountMatch(text), LAMBDA discountGroup :
    With(dollarMatches(text), LAMBDA matches :
    LET discount == IF discountGroup # <<>> THEN <<"$">> \o discountGroup ELSE <<>>
        empty == [mainPrice |-> <<>>, discount |-> discount, originalPrice |-> <<>>]
    IN IF text = <<>> THEN [mainPrice |-> <<>>, discount |-> <<>>, originalPrice |-> <<>>]
       ELSE IF matches = <<>> THEN empty
       ELSE IF discount # <<>> /\ Len(matches) >= 2
       THEN With(parseFloat(Tail(discount)), LAMBDA discountNum :
            With(parseFloat(Tail(matches[2])), LAMBDA currentNum :
            [mainPrice |-> matches[2], discount |-> discount,
             originalPrice |-> IF discountNum # NaN /\ currentNum # NaN
                               THEN <<"$">> \o toFixed(currentNum + discountNum) ELSE <<>>]))
       ELSE IF includes(joinWords(text), <<"e", "a">>)
       THEN With(eachMatch(text), LAMBDA group :
            [empty EXCEPT !.mainPrice = IF group # <<>> THEN <<"$">> \o group ELSE <<>>])
       ELSE [empty EXCEPT !.mainPrice = matches[1]]))

\* priceElements.each(...): the price text and the discount amount the
\* first deciding price element gives
RECURSIVE harrisPriceText(_)
harrisPriceText(priceElements) ==
    IF priceElements = <<>> THEN [priceText |-> <<>>, words |-> <<>>, discountAmount |-> <<>>]
    ELSE With(parseComplexPrice(Head(priceElements)), LAMBDA parsedPrice :
         IF parsedPrice.mainPrice # <<>>
         THEN [priceText |-> parsedPrice.mainPrice, words |-> <<parsedPrice.mainPrice>>,
               discountAmount |-> parsedPrice.discount]
         ELSE IF dollarMatches(Head(priceElements)) # <<>>
         THEN [priceText |-> joinWords(Head(priceElements)), words |-> Head(priceElements),
               discountAmount |-> <<>>]
         ELSE harrisPriceText(Tail(priceElements)))

\* the texts of the [class*="price"] elements of a product container
HarrisPriceTexts ==
    {<<<<"$", "8", ".", "9", "9">>>>,
     <<<<"S", "a", "v", "e">>, <<"$", "2", ".", "0", "0">>, <<"$", "8", ".", "9", "9">>, <<"e", "a">>>>,
     <<<<"S", "a", "v", "e">>, <<"$", "2", ".", "0", "0">>>>,
     <<<<"$", "8", ".", "9", "9">>, <<"e", "a">>, <<"$", "1", "7", ".", "9", "8">>, <<"/">>, <<"k", "g">>>>,
     <<<<"P", "O", "A">>>>,
     <<<<"G", "r", "e", "a", "t">>, <<"d", "e", "a", "l">>, <<"$", "8", ".", "9", "9">>>>}

\* a product container: its name, the texts of its price elements, the text
\* of its discount / save / was element (NullText when it has none) and the
\* text of its was / original element
HarrisContainers ==
    {c \in [name : {<<"A", "p", "p", "l", "e", "s">>}, priceElements : UNION {[1..n -> HarrisPriceTexts] : n \in 0..2},
            discountText : {NullText, <<>>, <<"S", "a", "v", "e", " ", "$", "1", ".", "0", "0">>}, wasText : {<<>>, <<"$", "9", ".", "9", "9">>}] :
        c.wasText # <<>> => c.discountText # NullText}

\* the body of productElements.each from the price search to products.push,
\* for a container not seen before: the product pushed, if any
harrisParseFields(container) ==
    With(harrisPriceText(container.priceElements), LAMBDA found :
    With(parseComplexPrice(found.words), LAMBDA parsedPrice :
    With(parseFloat(keepNumeric(found.priceText)), LAMBDA parsedNumber :
    LET priceText == found.priceText
        discountAmount == found.discountAmount
        fromParsed == discountAmount # <<>> /\ parsedPrice.originalPrice # <<>>
        fromElement == discountAmount = <<>> /\ container.discountText # NullText
        fromWas == fromElement /\ container.wasText # <<>>
    IN IF ~(truthy(container.name) /\ priceText # <<>>) THEN <<>>
       ELSE <<[title |-> container.name,
               store |-> "Harris Farm Markets",
               price |-> IF fromParsed THEN parsedPrice.originalPrice
                         ELSE IF fromWas THEN container.wasText
                         ELSE priceText,
               discount |-> IF discountAmount # <<>> THEN discountAmount
                            ELSE IF fromElement THEN container.discountText
                            ELSE <<>>,
               discountedPrice |-> IF fromParsed \/ fromWas THEN priceText ELSE <<>>,
               numericPrice |-> IF truthyNumber(parsedNumber) THEN parsedNumber ELSE 0]>>)))

\* productElements.each on one container
HarrisParseContainer(container) ==
    /\ extractor = None
    /\ extractor' = "harris"
    /\ element' = <<container>>
    /\ extracted' = harrisParseFields(container)
    /\ UNCHANGED <<orchVars, adapterVars, uiVars, restVars>>

\* ------------------------------------------------------------------------
\* GroceryScraper.sortByPrice
\* ------------------------------------------------------------------------
MaxSort == 3

\* the price strings of the records of the merged catalog, which carry no
\* numericPrice field
CatalogPrices == {<<"$", "2", ".", "0", "0">>, <<"N", "/", "A">>}

\* the products the callers hand to sortByPrice: the flattened lists of the
\* adapters (REST-API products without a was-price, browser tiles with or
\* without a dollars element) and catalog records
SortProducts ==
    {aldiParseFields(item) : item \in {x \in AldiItems : x.wasPriceDisplay = NullText}}
    \cup {woolParseFields(tile) : tile \in {x \in WoolTiles : x.was = NullText /\ x.cents = NullText}}
    \cup {[title |-> <<"M", "i", "l", "k">>, store |-> "Coles", price |-> str, discountedPrice |-> <<>>, discount |-> <<>>] :
              str \in CatalogPrices}

\* a.numericPrice || parseFloat(a.price.replace(/[^0-9.]/g, '')) || 0, for
\* a product whose price is a string; a missing numericPrice is undefined,
\* which is falsy like 0 and NaN
priceKey(a) ==
    IF "numericPrice" \in DOMAIN a /\ truthyNumber(a.numericPrice) THEN a.numericPrice
    ELSE With(parseFloat(keepNumeric(a.price)), LAMBDA parsed :
         IF truthyNumber(parsed) THEN parsed ELSE 0)

\* the comparator: ascending ? priceA - priceB : priceB - priceA, where
\* Infinity - Infinity is NaN, which sort treats as 0
comparePrices(a, b, ascending) ==
    With(priceKey(a), LAMBDA priceA :
    With(priceKey(b), LAMBDA priceB :
    IF priceA = priceB THEN 0
    ELSE IF ascending THEN priceA - priceB ELSE priceB - priceA))

\* Array.prototype.sort is stable: an element goes before the first element
\* the comparator puts after it
RECURSIVE insertByComparator(_, _, _)
insertByComparator(sorted, p, ascending) ==
    IF sorted = <<>> THEN <<p>>
    ELSE IF comparePrices(Head(sorted), p, ascending) > 0 THEN <<p>> \o sorted
    ELSE <<Head(sorted)>> \o insertByComparator(Tail(sorted), p, ascending)

RECURSIVE sortByPrice(_, _)
sortByPrice(list, ascending) ==
    IF list = <<>> THEN <<>>
    ELSE insertByComparator(sortByPrice(SubSeq(list, 1, Len(list) - 1), ascending),
                            list[Len(list)], ascending)

\* a call of sortByPrice on a list of one to MaxSort products
SortByPrice(list, ascending) ==
    /\ extractor = None
    /\ extractor' = IF ascending THEN "sortByPriceAscending" ELSE "sortByPriceDescending"
    /\ element' = list
    /\ extracted' = sortByPrice(list, ascending)
    /\ UNCHANGED <<orchVars, adapterVars, uiVars, restVars>>

\* ------------------------------------------------------------------------
\* GroceryScraper.searchInResults
\* ------------------------------------------------------------------------
MaxSearch == 2

\* the characters of a store name
storeText(store) ==
    CASE store = "Aldi" -> <<"A", "l", "d", "i">>
      [] store = "Woolworths" -> <<"W", "o", "o", "l", "w", "o", "r", "t", "h", "s">>
      [] store = "IGA" -> <<"I", "G", "A">>
      [] OTHER -> <<"C", "o", "l", "e", "s">>

\* the products the callers hand to searchInResults: products of the
\* adapters, which have a title and no name, and a product of the paginated
\* IGA adapter, which carries its name in both fields
SearchProducts ==
    {aldiParseFields(item) : item \in {x \in AldiItems : x.wasPriceDisplay = NullText
                                                         /\ x.amountRelevantDisplay = <<"$", "4", ".", "5", "0">>}}
    \cup {woolParseFields(tile) : tile \in {x \in WoolTiles : x.was = NullText /\ x.dollars = <<"4">>
                                                              /\ x.cents = <<"5", "0">>}}
    \cup {[title |-> <<"O", "a", "t", " ", "M", "i", "l", "k">>, name |-> <<"O", "a", "t", " ", "M", "i", "l", "k">>, store |-> "IGA", price |-> <<"$", "3", ".", "2", "0">>,
           discountedPrice |-> <<>>, discount |-> <<>>, numericPrice |-> 320]}

SearchTerms == {<<"m", "i", "l", "k">>, <<"A", "L", "D", "I">>, <<"o", "a", "t">>}

\* product.name.toLowerCase() on a product without a name field: undefined
\* has no toLowerCase, a TypeError
searchInResultsThrows(list) == \E i \in 1..Len(list) : "name" \notin DOMAIN list[i]

\* products.filter(product => product.name.toLowerCase().includes(term) ||
\*                            product.store.toLowerCase().includes(term))
searchInResults(list, searchTerm) ==
    With(lower(searchTerm), LAMBDA term :
    SelectSeq(list, LAMBDA product :
        includes(lower(product.name), term) \/ includes(lower(storeText(product.store)), term)))

\* a call of searchInResults
SearchInResults(list, searchTerm) ==
    /\ extractor = None
    /\ extractor' = IF searchInResultsThrows(list) THEN "searchInResultsTypeError" ELSE "searchInResults"
    /\ element' = <<[products |-> list, searchTerm |-> searchTerm]>>
    /\ extracted' = IF searchInResultsThrows(list) THEN <<>> ELSE searchInResults(list, searchTerm)
    /\ UNCHANGED <<orchVars, adapterVars, uiVars, restVars>>

\* ------------------------------------------------------------------------
\* Specification of the extraction functions
\* ------------------------------------------------------------------------
\* a response, scan or page of one or two raw entries
OneOrTwo(S) == [1..1 -> S] \cup [1..2 -> S]

NextExtract ==
    \/ \E container \in HarrisContainers : HarrisParseContainer(container)
    \/ \E tiles \in OneOrTwo(WoolTiles) : WoolParseTiles(tiles)
    \/ \E searchContainers \in OneOrTwo(Iga2Containers) : Iga2ParseLink(searchContainers)
    \/ \E items \in OneOrTwo(AldiItems) : AldiParseItems(items)
    \/ \E items \in OneOrTwo(IgaItems) : IgaParseItems(items)
    \/ \E n \in 1..MaxSort : \E list \in [1..n -> SortProducts] : \E ascending \in BOOLEAN :
           SortByPrice(list, ascending)
    \/ \E n \in 0..MaxSearch : \E list \in [1..n -> SearchProducts] : \E searchTerm \in SearchTerms :
           SearchInResults(list, searchTerm)

SpecExtract == Init /\ [][NextExtract]_vars

(***************************************************************************)
(* Part 6 (specification SpecSession): MaxCalls calls of searchProducts on *)
(* one WoolworthsScraper instance, as two scrapeStore calls on one         *)
(* GroceryScraper make them.  A call runs until its next await; the        *)
(* settling of the awaited promise is the next action of that call.  A     *)
(* browser and its page carry the number of the call whose init made them. *)
(***************************************************************************)
\* the end of a call: the catch block returns [] (from = 0), or the products
\* read from a page that shows the search results of call from
sessionReturn(c, from) ==
    /\ callPc' = [callPc EXCEPT ![c] = "done"]
    /\ callResult' = [callResult EXCEPT ![c] = from]

\* await this.page.goto(searchUrl): this.page is read when the call is made;
\* on null it is a TypeError, which the catch block turns into []
sessionGoto(c) ==
    IF thisPage = 0
    THEN /\ sessionReturn(c, 0)
         /\ UNCHANGED <<pageUrl, callPage>>
    ELSE /\ pageUrl' = [pageUrl EXCEPT ![thisPage] = c]
         /\ callPage' = [callPage EXCEPT ![c] = thisPage]
         /\ callPc' = [callPc EXCEPT ![c] = "goto"]
         /\ UNCHANGED callResult

\* scrapeStore -> searchProducts up to its first await: `if (!this.browser)
\* await this.init()` (init up to puppeteer.launch), else page.goto
SessionSearchProducts(c) ==
    /\ callPc[c] = "idle"
    /\ IF thisBrowser = 0
       THEN /\ launches' = launches + 1
            /\ callPc' = [callPc EXCEPT ![c] = "launch"]
            /\ UNCHANGED <<pageUrl, callPage, callResult>>
       ELSE /\ sessionGoto(c)
            /\ UNCHANGED launches
    /\ UNCHANGED <<thisBrowser, thisPage>>
    /\ UNCHANGED <<orchVars, adapterVars, uiVars, extractVars, appVars>>

\* puppeteer.launch settles: this.browser = the new browser, then
\* this.browser.newPage() is called
SessionLaunchSettles(c, ok) ==
    /\ callPc[c] = "launch"
    /\ IF ok
       THEN /\ thisBrowser' = c
            /\ callPc' = [callPc EXCEPT ![c] = "newPage"]
            /\ UNCHANGED callResult
       ELSE /\ sessionReturn(c, 0)
            /\ UNCHANGED thisBrowser
    /\ UNCHANGED <<thisPage, launches, pageUrl, callPage>>
    /\ UNCHANGED <<orchVars, adapterVars, uiVars, extractVars, appVars>>

\* newPage settles: this.page = the new page, then setUserAgent is called
SessionNewPageSettles(c) ==
    /\ callPc[c] = "newPage"
    /\ thisPage' = c
    /\ callPc' = [callPc EXCEPT ![c] = "setup"]
    /\ UNCHANGED <<thisBrowser, launches, pageUrl, callPage, callResult>>
    /\ UNCHANGED <<orchVars, adapterVars, uiVars, extractVars, appVars>>

\* setUserAgent and setViewport settle, init returns, page.goto is called
SessionSetupSettles(c) ==
    /\ callPc[c] = "setup"
    /\ sessionGoto(c)
    /\ UNCHANGED <<thisBrowser, thisPage, launches>>
    /\ UNCHANGED <<orchVars, adapterVars, uiVars, extractVars, appVars>>

\* page.goto settles: waitForSelector is called on this.page
SessionGotoSettles(c, ok) ==
    /\ callPc[c] = "goto"
    /\ IF ok
       THEN /\ callPage' = [callPage EXCEPT ![c] = thisPage]
            /\ callPc' = [callPc EXCEPT ![c] = "selector"]
            /\ UNCHANGED callResult
       ELSE /\ sessionReturn(c, 0)
            /\ UNCHANGED callPage
    /\ UNCHANGED <<thisBrowser, thisPage, launches, pageUrl>>
    /\ UNCHANGED <<orchVars, adapterVars, uiVars, extractVars, appVars>>

\* waitForSelector settles: the loop starts, page.evaluate is called on
\* this.page
SessionSelectorSettles(c, ok) ==
    /\ callPc[c] = "selector"
    /\ IF ok
       THEN /\ callPage' = [callPage EXCEPT ![c] = thisPage]
            /\ callPc' = [callPc EXCEPT ![c] = "evaluate"]
            /\ UNCHANGED callResult
       ELSE /\ sessionReturn(c, 0)
            /\ UNCHANGED callPage
    /\ UNCHANGED <<thisBrowser, thisPage, launches, pageUrl>>
    /\ UNCHANGED <<orchVars, adapterVars, uiVars, extractVars, appVars>>

\* the last page.evaluate settles with the tiles the page shows, and the
\* call returns them
SessionEvaluateSettles(c) ==
    /\ callPc[c] = "evaluate"
    /\ sessionReturn(c, pageUrl[callPage[c]])
    /\ UNCHANGED <<thisBrowser, thisPage, launches, pageUrl, callPage>>
    /\ UNCHANGED <<orchVars, adapterVars, uiVars, extractVars, appVars>>

NextSession ==
    \/ \E c \in Calls : SessionSearchProducts(c)
    \/ \E c \in Calls, ok \in BOOLEAN : SessionLaunchSettles(c, ok)
    \/ \E c \in Calls : SessionNewPageSettles(c)
    \/ \E c \in Calls : SessionSetupSettles(c)
    \/ \E c \in Calls, ok \in BOOLEAN : SessionGotoSettles(c, ok)
    \/ \E c \in Calls, ok \in BOOLEAN : SessionSelectorSettles(c, ok)
    \/ \E c \in Calls : SessionEvaluateSettles(c)

SpecSession == Init /\ [][NextSession]_vars

(***************************************************************************)
(* Part 7 (specification SpecHarris): one run of searchProducts of the     *)
(* HarrisScraper.  A product container of a page is the number k >= 1 of   *)
(* the product it shows (its name and price text), or NullItem for a       *)
(* container without a name or a price.  Times are in milliseconds.        *)
(***************************************************************************)
\* const shouldOnlyCheckFirstPage = maxResults <= 50
firstPageOnly == 50

\* const maxPages = 10
maxPages == 10

\* setTimeout(resolve, 10000) and waitForFunction(..., { timeout: 30000 })
challengeDelay == 10000

challengeTimeout == 30000

\* the maxResults arguments of the calls
HarrisTargets == {0, 1, 3, 50, 51}

\* the product containers of a page
HarrisPages == {<<>>, <<1>>, <<2, 1>>, <<1, NullItem, 2, 3>>, <<4, 4>>}

\* how init, page.goto and the reads of the title and the body can end
HarrisNavigations == {"launchFails", "gotoTimeout", "titleFails", "ok"}

\* how an awaited page operation can end: it resolves, it rejects with an
\* error whose message holds TimeoutError or Navigation, or with another
Rejections == {"none", "timeout", "other"}

\* how long waitForFunction takes until the interstitial is gone or the
\* page is replaced
ClearingTimes == {0, 15000}

\* productElements.each: stops at maxResults, leaves out a container
\* without name or price and a product already in seenProducts
RECURSIVE harrisScan(_, _, _)
harrisScan(list, elements, maxResults) ==
    IF elements = <<>> \/ Len(list) >= maxResults THEN list
    ELSE harrisScan(IF Head(elements) = NullItem
                       \/ \E i \in 1..Len(list) : list[i].title = Head(elements)
                    THEN list
                    ELSE Append(list, [title |-> Head(elements), numericPrice |-> Head(elements),
                                       productUrl |-> Head(elements), store |-> "Harris Farm Markets"]),
                    Tail(elements), maxResults)

\* the catch block of searchProducts: an error whose message holds
\* TimeoutError or Navigation starts the alternative approach, any other
\* error returns []
harrisCatch(rejection) ==
    /\ caught' = "logged"
    /\ IF rejection = "timeout"
       THEN /\ pc' = "retry"
            /\ outcome' = "pending"
            /\ UNCHANGED returned
       ELSE Resolve(<<>>)

\* searchProducts up to the test for the Cloudflare challenge page
HarrisSearchProducts(maxResults, nav, challenge) ==
    /\ adp = None /\ entry = None
    /\ adp' = "harris"
    /\ opts' = [maxResults |-> maxResults]
    /\ products' = <<>>
    /\ cycles' = 0
    /\ browser' = IF nav = "launchFails" THEN "null" ELSE "open"
    /\ locals' = [pageCount |-> 0, waited |-> 0, challenged |-> nav = "ok" /\ challenge, loop |-> FALSE]
    /\ IF nav = "gotoTimeout" THEN harrisCatch("timeout")
       ELSE IF nav # "ok" THEN harrisCatch("other")
       ELSE /\ pc' = IF challenge THEN "challengeDelay" ELSE "selectors"
            /\ outcome' = "pending"
            /\ UNCHANGED <<returned, caught>>
    /\ UNCHANGED <<orchVars, uiVars, extractVars, restVars>>

\* the 10 s timer fires and waitForFunction is called
HarrisChallengeDelay ==
    /\ adp = "harris" /\ pc = "challengeDelay"
    /\ locals' = [locals EXCEPT !.waited = @ + challengeDelay]
    /\ pc' = "challengeWait"
    /\ UNCHANGED <<adp, opts, products, cycles, outcome, returned, caught, browser>>
    /\ UNCHANGED <<orchVars, uiVars, extractVars, restVars>>

\* (mutant) a challenge that does not clear ends the run
afterChallenge_fatal(result) == IF result = "cleared" THEN "selectors" ELSE "done"

\* try { await waitForFunction(...) } catch (challengeError) { log }: the
\* run goes on to the product selectors whatever waitForFunction did
afterChallenge(result) == "selectors"

\* waitForFunction settles: the interstitial cleared, the 30 s timeout
\* passed, or the execution context was destroyed
HarrisChallengeSettles(result, t) ==
    /\ adp = "harris" /\ pc = "challengeWait"
    /\ locals' = [locals EXCEPT !.waited = @ + (IF result = "timeout" THEN challengeTimeout ELSE t)]
    /\ pc' = afterChallenge(result)
    /\ UNCHANGED <<adp, opts, products, cycles, outcome, returned, caught, browser>>
    /\ UNCHANGED <<orchVars, uiVars, extractVars, restVars>>

\* the waitForSelector loop (5 s per selector), the content-length test when
\* no selector matched, and the first test of the page loop
HarrisSelectors(found, short, rejection) ==
    /\ adp = "harris" /\ pc = "selectors"
    /\ IF ~found /\ rejection # "none"
       THEN /\ harrisCatch(rejection)
            /\ UNCHANGED locals
       ELSE IF ~found /\ short
       THEN /\ Resolve(<<>>)
            /\ UNCHANGED <<locals, caught>>
       ELSE IF 0 < opts.maxResults
       THEN /\ locals' = [locals EXCEPT !.pageCount = 1, !.loop = TRUE]
            /\ pc' = "content"
            /\ UNCHANGED <<outcome, returned, caught>>
       ELSE /\ locals' = [locals EXCEPT !.loop = TRUE]
            /\ Resolve(slice(products, opts.maxResults))
            /\ UNCHANGED caught
    /\ UNCHANGED <<adp, opts, products, cycles, browser>>
    /\ UNCHANGED <<orchVars, uiVars, extractVars, restVars>>

\* (mutant) the loop goes on to further pages for a small request
harrisStops_allPages(count, maxResults, pageCount) ==
    count >= maxResults \/ pageCount >= maxPages

\* if (currentResults >= maxResults || shouldOnlyCheckFirstPage || pageCount >= maxPages) break
harrisStops(count, maxResults, pageCount) ==
    count >= maxResults \/ maxResults <= firstPageOnly \/ pageCount >= maxPages

\* page.content settles: the rest of one iteration of the page loop (scan,
\* stop test, scroll, height test, next button, click), the loop test and
\* the next page.content or the end of the run; rejection is that of
\* page.content, of a scroll evaluate or of the click
HarrisPage(rejection, page, grew, hasNext) ==
    /\ adp = "harris" /\ pc = "content"
    /\ IF rejection # "none"
       THEN /\ harrisCatch(rejection)
            /\ UNCHANGED <<products, locals>>
       ELSE LET pushed == harrisScan(products, page, opts.maxResults) IN
            /\ products' = pushed
            /\ UNCHANGED caught
            /\ IF harrisStops(Len(pushed), opts.maxResults, locals.pageCount)
                  \/ (~grew /\ ~hasNext)
               THEN /\ Resolve(slice(pushed, opts.maxResults))
                    /\ UNCHANGED locals
               ELSE /\ locals' = [locals EXCEPT !.pageCount = @ + 1]
                    /\ UNCHANGED <<pc, outcome, returned>>
    /\ UNCHANGED <<adp, opts, cycles, browser>>
    /\ UNCHANGED <<orchVars, uiVars, extractVars, restVars>>

\* $('...').slice(0, maxResults).each of the alternative approach: no
\* seenProducts test
RECURSIVE harrisRetryScan(_)
harrisRetryScan(elements) ==
    IF elements = <<>> THEN <<>>
    ELSE (IF Head(elements) = NullItem THEN <<>>
          ELSE <<[title |-> Head(elements), numericPrice |-> Head(elements),
                  productUrl |-> Head(elements), store |-> "Harris Farm Markets"]>>)
         \o harrisRetryScan(Tail(elements))

\* the alternative approach of the catch block: the main page, the search
\* input, Enter, and one scan of the page
HarrisAlternative(rejected, hasInput, page) ==
    /\ adp = "harris" /\ pc = "retry"
    /\ IF rejected \/ ~hasInput
       THEN Resolve(<<>>)
       ELSE Resolve(harrisRetryScan(slice(page, opts.maxResults)))
    /\ UNCHANGED <<adp, opts, products, locals, cycles, caught, browser>>
    /\ UNCHANGED <<orchVars, uiVars, extractVars, restVars>>

NextHarris ==
    \/ \E m \in HarrisTargets, n \in HarrisNavigations, ch \in BOOLEAN : HarrisSearchProducts(m, n, ch)
    \/ HarrisChallengeDelay
    \/ \E r \in {"cleared", "timeout", "error"}, t \in ClearingTimes : HarrisChallengeSettles(r, t)
    \/ \E f \in BOOLEAN, sh \in BOOLEAN, r \in Rejections : HarrisSelectors(f, sh, r)
    \/ \E r \in Rejections, l \in HarrisPages, g \in BOOLEAN, nx \in BOOLEAN : HarrisPage(r, l, g, nx)
    \/ \E r \in BOOLEAN, i \in BOOLEAN, l \in HarrisPages : HarrisAlternative(r, i, l)

SpecHarris == Init /\ [][NextHarris]_vars

\* the timers fire and every awaited page operation settles (each has a
\* timeout), so a step that is possible is taken
SpecHarrisLive == SpecHarris /\ WF_vars(NextHarris)

(***************************************************************************)
(* Part 8 (specification SpecApp): the App component of the search UI,     *)
(* grocery-frontend/src/components/ShoppingListGenerator.jsx.  The user    *)
(* types a query, starts a search with the Search button or with Enter,    *)
(* and asks for the next page with Load More; every call of handleSearch   *)
(* makes one fetch, and the fetches settle in any order.  A product is     *)
(* written [req, k]: the k-th product of the response to the req-th fetch. *)
(***************************************************************************)

\* the fetches one run makes
MaxRequests == 3

\* the number of products of a full page of a response
PageLen == 2

\* the texts the user types
AppQueries == {"", " ", "milk", "bread"}

\* String.prototype.trim on the texts of AppQueries
trim(q) == IF q = " " THEN "" ELSE q

\* what a fetch settles with: ok is response.ok and data.success; a response
\* that is not ok, a rejected fetch and a rejected response.json() all end in
\* the catch block
Responses ==
    { [ok |-> FALSE, n |-> 0, hasMore |-> FALSE, totalResults |-> 0],
      [ok |-> TRUE, n |-> 0, hasMore |-> FALSE, totalResults |-> 0],
      [ok |-> TRUE, n |-> PageLen, hasMore |-> TRUE, totalResults |-> 3 * PageLen],
      [ok |-> TRUE, n |-> PageLen, hasMore |-> FALSE, totalResults |-> PageLen] }

\* data.products of the response to the req-th fetch
dataProducts(req, n) == [k \in 1..n |-> [req |-> req, k |-> k]]

\* the last fetch made with resetProducts, 0 before the first search
latestSearch ==
    IF \E i \in 1..Len(requests) : requests[i].resetProducts
    THEN CHOOSE i \in 1..Len(requests) :
            /\ requests[i].resetProducts
            /\ \A j \in (i + 1)..Len(requests) : ~requests[j].resetProducts
    ELSE 0

\* onChange of the search input
SetSearchQuery(q) ==
    /\ q # searchQuery
    /\ searchQuery' = q
    /\ UNCHANGED <<appProducts, appLoading, loadingMore, currentPage, hasMore,
                   totalResults, appSearchError, requests>>
    /\ UNCHANGED <<orchVars, adapterVars, uiVars, extractVars, sessionVars>>

\* handleSearch up to its await: the state is prepared and the fetch is made
\* with the query of the input and, for a load-more, the page after the
\* current one
AppHandleSearch(resetProducts) ==
    /\ trim(searchQuery) # ""
    /\ Len(requests) < MaxRequests
    /\ IF resetProducts
       THEN /\ appLoading' = TRUE
            /\ appProducts' = <<>>
            /\ currentPage' = 1
            /\ appSearchError' = FALSE
            /\ UNCHANGED loadingMore
       ELSE /\ loadingMore' = TRUE
            /\ UNCHANGED <<appLoading, appProducts, currentPage, appSearchError>>
    /\ requests' = Append(requests,
                          [resetProducts |-> resetProducts,
                           query |-> searchQuery,
                           page |-> IF resetProducts THEN 1 ELSE currentPage + 1,
                           state |-> "pending",
                           n |-> 0])
    /\ UNCHANGED <<searchQuery, hasMore, totalResults>>
    /\ UNCHANGED <<orchVars, adapterVars, uiVars, extractVars, sessionVars>>

\* the Search button, disabled while loading or without a query
AppHandleSearchClick ==
    /\ ~appLoading
    /\ trim(searchQuery) # ""
    /\ AppHandleSearch(TRUE)

\* Enter in the search input, which is never disabled
AppHandleKeyPress ==
    /\ searchQuery \in AppQueries
    /\ AppHandleSearch(TRUE)

\* the Load More button: rendered with the results while hasMore, disabled
\* while loadingMore
AppHandleLoadMore ==
    /\ ~appLoading
    /\ Len(appProducts) > 0
    /\ hasMore
    /\ ~loadingMore
    /\ AppHandleSearch(FALSE)

appendPage_replace(prev, page) == page

\* setProducts(prev => [...prev, ...data.products])
appendPage(prev, page) == prev \o page

\* the rest of handleSearch once the fetch of request i has settled with r
FetchSettles(i, r) ==
    /\ i \in 1..Len(requests)
    /\ requests[i].state = "pending"
    /\ IF r.ok
       THEN /\ IF requests[i].resetProducts
               THEN /\ appProducts' = dataProducts(i, r.n)
                    /\ currentPage' = 1
               ELSE /\ appProducts' = appendPage(appProducts, dataProducts(i, r.n))
                    /\ currentPage' = currentPage + 1
            /\ hasMore' = r.hasMore
            /\ totalResults' = r.totalResults
            /\ UNCHANGED appSearchError
       ELSE IF requests[i].resetProducts
            THEN /\ appProducts' = <<>>
                 /\ hasMore' = FALSE
                 /\ totalResults' = 0
                 /\ appSearchError' = TRUE
                 /\ UNCHANGED currentPage
            ELSE UNCHANGED <<appProducts, hasMore, totalResults, appSearchError,
                             currentPage>>
    /\ appLoading' = FALSE
    /\ loadingMore' = FALSE
    /\ requests' = [requests EXCEPT ![i].state = IF r.ok THEN "ok" ELSE "failed",
                                    ![i].n = r.n]
    /\ UNCHANGED searchQuery
    /\ UNCHANGED <<orchVars, adapterVars, uiVars, extractVars, sessionVars>>

\* handleClearCache when the cache was cleared: the shown products are dropped
\* (clearingCache and cacheMessage are not part of the search state)
AppHandleClearCache ==
    /\ appProducts # <<>>
    /\ appProducts' = <<>>
    /\ UNCHANGED <<searchQuery, appLoading, loadingMore, currentPage, hasMore,
                   totalResults, appSearchError, requests>>
    /\ UNCHANGED <<orchVars, adapterVars, uiVars, extractVars, sessionVars>>

NextApp ==
    \/ \E q \in AppQueries : SetSearchQuery(q)
    \/ AppHandleSearchClick
    \/ AppHandleKeyPress
    \/ AppHandleLoadMore
    \/ \E i \in 1..MaxRequests, r \in Responses : FetchSettles(i, r)
    \/ AppHandleClearCache

SpecApp == Init /\ [][NextApp]_vars

\* ------------------------------------------------------------------------
\* Properties of the orchestrator
\* ------------------------------------------------------------------------
\* a scrapeAllStores call is in progress or has finished
allStoresCalled == \A s \in Stores : promises[s] # None

\* what the returned map must hold for store s, given its adapter's outcome
Expected(s) == IF adapter[s] = "returned" THEN storeValue[s] ELSE <<>>

\* the number of products the adapters returned, over all stores
TotalReturned ==
    LET f[i \in 0..Len(scrapers)] ==
          IF i = 0 THEN 0 ELSE f[i - 1] + Len(Expected(scrapers[i]))
    IN f[Len(scrapers)]

\* C1: scrapeAllStores never rejects, whatever the adapters do; when every
\* adapter's searchProducts failed, the map it resolves with holds an empty
\* list for every registered store.
C1_AllStoresNeverRejects ==
    allStoresCalled =>
        /\ callState # "rejected"
        /\ \A s \in Stores : promises[s] # "rejected"
        /\ (callState = "resolved" /\ \A s \in Stores : adapter[s] = "threw") =>
               /\ Keys(callValue) = Stores
               /\ \A s \in Stores : Get(callValue, s) = <<>>

C1_Witness ==
    /\ entry = "scrapeAllStores"
    /\ callState = "resolved"
    /\ \A s \in Stores : adapter[s] = "threw"
    /\ \A s \in Stores : Get(callValue, s) = <<>>

\* C2: the map scrapeAllStores returns has exactly one entry per registered
\* store; a store whose adapter failed is present with an empty list, a
\* store whose adapter succeeded holds exactly the products the adapter
\* returned; the flattened aggregate holds exactly the products of the
\* stores that succeeded (one failing, one returning 5: 5 products, all
\* from the second).
C2_OneEntryPerStore ==
    (allStoresCalled /\ callState = "resolved") =>
        /\ Len(callValue) = Cardinality(Stores)
        /\ Keys(callValue) = Stores
        /\ \A s \in Stores :
             /\ adapter[s] = "threw" => Get(callValue, s) = <<>>
             /\ adapter[s] = "returned" => Get(callValue, s) = storeValue[s]
        /\ LET flat == flattenResults(callValue) IN
             /\ Len(flat) = TotalReturned
             /\ \A i \in 1..Len(flat) :
                  /\ adapter[flat[i][1]] = "returned"
                  /\ flat[i][2] \in 1..Len(storeValue[flat[i][1]])
             /\ \A i, j \in 1..Len(flat) : flat[i] = flat[j] => i = j

C2_Witness ==
    /\ entry = "scrapeAllStores"
    /\ callState = "resolved"
    /\ adapter["coles"] = "threw"
    /\ adapter["iga"] = "returned" /\ Len(storeValue["iga"]) = MaxProducts
    /\ \A s \in Stores \ {"coles", "iga"} : adapter[s] = "returned" /\ storeValue[s] = <<>>
    /\ "coles" \in Keys(callValue) /\ Get(callValue, "coles") = <<>>
    /\ Len(flattenResults(callValue)) = MaxProducts
    /\ \A i \in 1..MaxProducts : flattenResults(callValue)[i][1] = "iga"

\* C3: scrapeAllStores resolves only after every branch has settled: once
\* it has resolved no adapter is still running, every chain has run its
\* callback, the result object is the one that was returned (nothing was
\* written to it afterwards), and as a map from store to list it is
\* determined by the adapters' outcomes alone, whatever order they finished in.
C3_ResolvesAfterAllSettled ==
    (allStoresCalled /\ callState = "resolved") =>
        /\ \A s \in Stores : adapter[s] \in {"returned", "threw"}
        /\ \A s \in Stores : promises[s] = "fulfilled"
        /\ results = callValue
        /\ [s \in Stores |-> Get(results, s)] = [s \in Stores |-> Expected(s)]

\* the branches finished in the reverse of the order they were started in
C3_Witness ==
    /\ entry = "scrapeAllStores"
    /\ callState = "resolved"
    /\ [i \in 1..Len(results) |-> results[i][1]] = <<"harris", "iga", "coles", "woolworths">>
    /\ adapter["harris"] = "returned" /\ storeValue["harris"] # <<>>
    /\ adapter["iga"] = "threw"

C5_MainUnsupportedStoreNoFetch ==
    (entry = "main" /\ args.command = "search" /\ args.store # None
        /\ ~isSupportedStore(args.store)) =>
        /\ \A s \in Stores : adapter[s] = "idle"
        /\ mainPc = "done" => report = "error"

\* C25: a search request with a missing query is rejected before any fetch
\* attempt: neither main nor scrapeStore nor scrapeAllStores invokes an
\* adapter's searchProducts when the query is absent.
C25_MissingQueryNoFetch ==
    (entry # None /\ args.query = None) => \A s \in Stores : adapter[s] = "idle"

\* ------------------------------------------------------------------------
\* Properties of the adapters
\* ------------------------------------------------------------------------
\* the entries of a response that can be parsed
parsable(items) == SelectSeq(items, LAMBDA x : x # NullItem)

\* the catalog records that have a title
titled(records) == SelectSeq(records, LAMBDA x : x.hasTitle)

\* C6: for every adapter, when the navigation, the HTTP request or the
\* page-level extraction throws, searchProducts resolves with an empty list
\* after logging the cause; it never rejects.
C6_PageErrorsGiveEmptyResult ==
    /\ outcome # "rejected"
    /\ (pc = "done" /\ caught # None) => (outcome = "resolved" /\ returned = <<>>)

\* C7: an item that fails to parse never aborts its page: no adapter
\* returns a null entry, and a page that was delivered yields every
\* parsable item of it (up to maxResults) although another item failed.
C7_ItemErrorsSkipped ==
    /\ \A i \in 1..Len(returned) : returned[i] # NullProduct
    /\ (adp = "igaApi" /\ pc = "done" /\ ~locals.response.threw /\ locals.response.status = 200) =>
           LET good == slice(parsable(locals.response.items), opts.maxResults) IN
           /\ Len(returned) = Len(good)
           /\ {returned[i].title : i \in 1..Len(returned)} = {good[i] : i \in 1..Len(good)}
    /\ (adp = "coles" /\ pc = "done" /\ locals.file.error = None) =>
           returned = slice(colesFilter(titled(locals.file.allProducts), opts.query), opts.maxResults)

\* C8: every pagination loop has a hard iteration ceiling that does not
\* depend on the data returned: no run of any adapter ever starts its
\* MaxCycles-th fetch cycle (MaxCycles is above every ceiling an adapter
\* declares: 5 scroll attempts, 10 pages).
C8_LoopsHaveHardCeiling == adp # None => cycles < MaxCycles

\* C9: in result-count-bounded mode the paginated IGA run keeps fetching
\* while it is below its target and the last page was not empty: a run
\* that ended by itself has reached the target or has seen an empty page;
\* the number of pages fetched does not stop it.
C9_ResultModeIgnoresPageCount ==
    (adp = "iga2" /\ pc = "done" /\ opts.resultsArg # 0 /\ opts.specificPage = 0
        /\ caught = None /\ locals.stoppedBy # "operator") =>
        \/ Len(products) >= opts.maxResults
        \/ locals.pageProducts = <<>>

\* C10: in page-count-bounded mode with page bound N >= 1 given as
\* maxPages, the paginated IGA run performs at most N page navigations.
C10_AtMostNPageNavigations ==
    (adp = "iga2" /\ opts.pagesArg >= 1) => cycles <= opts.pagesArg

\* the key two emissions of one product share: the catalog title for the
\* catalog adapter; title, amount and product URL for the others
sameKey(p, q) ==
    IF adp = "coles" THEN p.title = q.title
    ELSE /\ p.title = q.title
         /\ p.numericPrice = q.numericPrice
         /\ p.productUrl = q.productUrl

\* C11: within one adapter run the list an adapter emits never holds two
\* products with the same normalized key (title and amount, or product
\* URL), whether the repeats come from one page scan or from successive
\* scroll / pagination iterations.
C11_NoDuplicateKeys ==
    (adp \in {"aldi", "woolworths", "woolworthsLoadMore"} /\ outcome = "resolved") =>
        \A i, j \in 1..Len(returned) : i # j => ~sameKey(returned[i], returned[j])

\* the names of the products of a list
titles(list) == {list[i].title : i \in 1..Len(list)}

\* C12: page-bounded pagination with a bound of 2 pages returns every
\* distinct item of the two pages once: an item already emitted from page 1
\* is not emitted again from page 2, so the length of the result is the
\* number of distinct items (19 for two pages of 10 that share one item).
C12_SharedItemEmittedOnce ==
    (adp = "iga2" /\ pc = "done" /\ outcome = "resolved" /\ opts.pagesArg = 2
        /\ opts.resultsArg = 0 /\ opts.specificPage = 0) =>
        Len(returned) = Cardinality(titles(returned))

\* ------------------------------------------------------------------------
\* Properties of the front end
\* ------------------------------------------------------------------------
\* list a is a prefix of list b
isPrefix(a, b) == Len(a) <= Len(b) /\ a = SubSeq(b, 1, Len(a))

\* C13: load more is a prefix extension: the displayed list is always the
\* prefix of the fetched superset up to the display cutoff; a load-more
\* step raises the cutoff, keeps the list shown before as the first elements
\* of the new list in the same order, issues no fetch and leaves the
\* superset unchanged.
C13_LoadMoreExtendsPrefix ==
    /\ [](/\ isPrefix(displayedProducts, allProducts)
          /\ (~loading => displayedProducts = slice(allProducts, currentDisplayCount)))
    /\ [][HandleLoadMore =>
            /\ currentDisplayCount' > currentDisplayCount
            /\ isPrefix(displayedProducts, displayedProducts')
            /\ Len(displayedProducts') > Len(displayedProducts)
            /\ displayedProducts' = slice(allProducts, currentDisplayCount')
            /\ allProducts' = allProducts
            /\ fetches' = fetches /\ request' = request]_vars

\* load more was used twice on a superset of 25: 10, then 20, then all 25 shown
C13_Witness ==
    /\ Len(allProducts) = 25
    /\ currentDisplayCount = 3 * itemsPerPage
    /\ displayedProducts = allProducts
    /\ ~loading /\ fetches = 1

\* ------------------------------------------------------------------------
\* Properties of the extraction functions
\* ------------------------------------------------------------------------
\* a display string that contains an amount, and that amount
hasAmount(str) == truthy(str) /\ \E i \in 1..Len(str) : isDigit(str[i])

amountOf(str) == parseFloat(keepNumeric(str))

\* the amounts the price strings of a product show
shownAmounts(p) == {amountOf(str) : str \in {x \in {p.price, p.discountedPrice} : hasAmount(x)}}

\* C14: for every product an adapter emits, numericPrice is the
\* non-negative finite amount its price string shows when it shows one, and
\* the sentinel (Infinity) otherwise; it is never 0 or absent for an
\* unparsable price.
C14_NumericPriceOrSentinel ==
    extractor \in {"aldi", "igaApi", "woolworths", "iga2", "harris"} =>
        \A i \in 1..Len(extracted) :
            LET p == extracted[i] IN
            IF shownAmounts(p) # {}
            THEN p.numericPrice \in shownAmounts(p) /\ 0 <= p.numericPrice /\ p.numericPrice < Infinity
            ELSE p.numericPrice = Infinity

\* C16: every product an adapter emits that has a discount text has a
\* discounted price: discount non-empty implies discountedPrice non-empty
\* (neither the empty string nor null).
C16_DiscountImpliesDiscountedPrice ==
    extractor \in {"aldi", "igaApi", "woolworths", "iga2", "harris"} =>
        \A i \in 1..Len(extracted) :
            truthy(extracted[i].discount) => truthy(extracted[i].discountedPrice)

\* what the discount decision rule of C17 prescribes for an item
ruleProduct(item) ==
    IF truthy(item.wasPriceDisplay)
    THEN [title |-> item.name, store |-> "Aldi", price |-> item.wasPriceDisplay,
          discountedPrice |-> item.amountRelevantDisplay, discount |-> item.wasPriceDisplay,
          numericPrice |-> amountOf(item.amountRelevantDisplay)]
    ELSE [title |-> item.name, store |-> "Aldi", price |-> item.amountRelevantDisplay,
          discountedPrice |-> <<>>, discount |-> <<>>,
          numericPrice |-> amountOf(item.amountRelevantDisplay)]

\* C17: the discount decision rule of the REST-API adapter: an item with a
\* was-price yields price = was-price, discountedPrice = current price,
\* discount = was-price; an item without one yields price = current price
\* and discount = "" (the empty string); numericPrice is the amount of the
\* current price in both cases, and the returned list is in ascending
\* numericPrice order.
C17_DiscountDecisionRule ==
    (extractor = "aldi" /\ \A i \in 1..Len(element) : hasAmount(element[i].amountRelevantDisplay)
                                                      /\ amountOf(element[i].amountRelevantDisplay) > 0) =>
        /\ Len(extracted) = Len(element)
        /\ \A i \in 1..Len(element) : \E j \in 1..Len(extracted) :
             LET p == extracted[j]
                 r == ruleProduct(element[i])
             IN /\ p.price = r.price
                /\ p.discount = r.discount
                /\ truthy(r.discountedPrice) => p.discountedPrice = r.discountedPrice
                /\ p.numericPrice = r.numericPrice
        /\ \A j \in 1..(Len(extracted) - 1) : extracted[j].numericPrice <= extracted[j + 1].numericPrice

\* the container that decided the price of the parsed link has a special
\* signal (badge or keyword) and n currency amounts
signalled(n) ==
    /\ extractor = "iga2"
    /\ LET i == decidingContainer(element, 1) IN
       /\ i # 0
       /\ element[i].hasSpecial \/ hasKeyword(element[i].text)
       /\ IF n >= 2 THEN Len(priceMatches(element[i].text)) >= 2
          ELSE Len(priceMatches(element[i].text)) = n

\* the amounts of the deciding container, in text order
decidingAmounts ==
    LET matches == priceMatches(element[decidingContainer(element, 1)].text) IN
    [k \in 1..Len(matches) |-> parseFloat(Tail(matches[k]))]

\* C18: with a special signal (badge, or keyword was / now / save /
\* special) and two or more amounts in the container text, the emitted
\* price is the lower amount and the discount is the non-negative
\* difference between the higher and the lower, whichever order the
\* amounts appear in.
C18_SpecialTwoAmounts ==
    signalled(2) =>
        LET a == decidingAmounts[1]
            b == decidingAmounts[2]
            low == IF a < b THEN a ELSE b
            high == IF a < b THEN b ELSE a
        IN /\ amountOf(extracted[1].price) = low
           /\ extracted[1].discount = <<"$">> \o toFixed(high - low)

\* C19: with a special signal (badge or keyword) and exactly one amount,
\* the product is marked as on special (its discount text is not empty)
\* and that text holds no fabricated saving amount.
C19_SpecialOneAmount ==
    signalled(1) =>
        /\ extracted[1].discount # <<>>
        /\ ~hasAmount(extracted[1].discount)


\* ------------------------------------------------------------------------
\* Properties of the price sort
\* ------------------------------------------------------------------------
\* a product whose price cannot be parsed: its numericPrice is the sentinel,
\* or it has no numericPrice and its price string shows no amount
unparsablePrice(p) ==
    IF "numericPrice" \in DOMAIN p THEN p.numericPrice = Infinity ELSE ~hasAmount(p.price)

\* a product with a positive finite price
parsablePrice(p) ==
    IF "numericPrice" \in DOMAIN p THEN 0 < p.numericPrice /\ p.numericPrice < Infinity
    ELSE hasAmount(p.price) /\ amountOf(p.price) > 0

\* the number of times p occurs in list
occurrences(list, p) == Cardinality({i \in 1..Len(list) : list[i] = p})

\* C15: sortByPrice(products, true) returns a permutation of its input in
\* which the positive finite numeric prices are non-decreasing and every
\* product whose price is unparsable (sentinel or missing numericPrice)
\* comes after every product with a parsable price.
C15_SortAscendingUnparsableLast ==
    extractor = "sortByPriceAscending" =>
        /\ Len(extracted) = Len(element)
        /\ \A p \in SortProducts : occurrences(extracted, p) = occurrences(element, p)
        /\ \A i, j \in 1..Len(extracted) :
             /\ (i < j /\ "numericPrice" \in DOMAIN extracted[i] /\ "numericPrice" \in DOMAIN extracted[j]
                  /\ parsablePrice(extracted[i]) /\ parsablePrice(extracted[j]))
                    => extracted[i].numericPrice <= extracted[j].numericPrice
             /\ (unparsablePrice(extracted[i]) /\ parsablePrice(extracted[j])) => j < i


\* ------------------------------------------------------------------------
\* Properties of the browser handle
\* ------------------------------------------------------------------------
\* C20: when a run of searchProducts of a browser-driven adapter that was
\* asked for at least one product ends (by normal completion, by the break
\* on no growth, or by a caught exception) the browser that run owned has
\* been released through close: the handle is null at the step that ends
\* the run.
C20_BrowserReleasedWhenRunEnds ==
    [][(adp' \in {"woolworths", "woolworthsLoadMore"} /\ opts'.maxResults > 0
           /\ pc # "done" /\ pc' = "done")
          => browser' = "null"]_vars


\* ------------------------------------------------------------------------
\* Properties of concurrent calls on one adapter instance
\* ------------------------------------------------------------------------
\* the positions at which a call has a navigation or a read of a page pending
usingPage == {"goto", "selector", "evaluate"}

\* C21: a searchProducts call made while an earlier call on the same
\* instance is still running is queued or fails: no two running calls
\* navigate or read the same page at the same time, and the instance never
\* launches a second browser.
C21_ConcurrentCallsDoNotShare ==
    /\ launches <= 1
    /\ \A c, d \in Calls :
         (c # d /\ callPc[c] \in usingPage /\ callPc[d] \in usingPage) => callPage[c] # callPage[d]


\* ------------------------------------------------------------------------
\* Properties of the Harris adapter
\* ------------------------------------------------------------------------
\* C22: when the Harris adapter detects the anti-automation interstitial it
\* waits a bounded time (at most 10 s + 30 s) and then always goes on to the
\* extraction stage (the wait for the product selectors): a challenge that
\* never clears neither ends the run from inside the challenge block nor
\* makes it wait forever, and the run ends.
C22_ChallengeWaitBoundedThenProceeds ==
    /\ [](adp = "harris" => locals.waited <= challengeDelay + challengeTimeout)
    /\ [][(adp = "harris" /\ pc = "challengeDelay" => pc' = "challengeWait")
          /\ (adp = "harris" /\ pc = "challengeWait" => pc' = "selectors" /\ caught' = None)]_vars
    /\ (adp = "harris" /\ pc = "challengeDelay") ~> (pc = "selectors")
    /\ (adp = "harris" /\ pc = "challengeDelay") ~> (pc = "done" /\ outcome = "resolved")

\* the challenge never cleared, and the run went on after 40 s
C22_Witness ==
    /\ adp = "harris" /\ pc = "selectors"
    /\ locals.challenged
    /\ locals.waited = challengeDelay + challengeTimeout


\* ------------------------------------------------------------------------
\* Properties of the local-catalog adapter
\* ------------------------------------------------------------------------
\* part occurs in str when the case of the letters is ignored
containsIgnoringCase(str, part) ==
    \E off \in 0..(Len(str) - Len(part)) :
        \A j \in 1..Len(part) : lowerChar(str[off + j]) = lowerChar(part[j])

\* the positions of the catalog records whose title contains the query
matchingPositions(records, query) ==
    {i \in 1..Len(records) : containsIgnoringCase(records[i].title, query)}

\* the k-th smallest element of a set of positions
kthPosition(S, k) == CHOOSE i \in S : Cardinality({j \in S : j < i}) = k - 1

C24_SearchInResultsOverTitleAndStore ==
    (extractor \in {"searchInResults", "searchInResultsTypeError"}
       /\ \A i \in 1..Len(element[1].products) : "name" \notin DOMAIN element[1].products[i]) =>
        /\ extractor = "searchInResults"
        /\ extracted = SelectSeq(element[1].products, LAMBDA p :
                          containsIgnoringCase(p.title, element[1].searchTerm)
                          \/ containsIgnoringCase(storeText(p.store), element[1].searchTerm))


\* ------------------------------------------------------------------------
\* Properties of the result cap
\* ------------------------------------------------------------------------
\* C26: for a result cap maxResults >= 1 passed as the second argument, the
\* list searchProducts(query, maxResults) returns, and so the list
\* scrapeStore returns, has at most maxResults products.
C26_AtMostMaxResults ==
    (adp = "iga2" /\ pc = "done" /\ opts.numberArg >= 1) => Len(returned) <= opts.numberArg


\* ------------------------------------------------------------------------
\* Properties of the scroll loop
\* ------------------------------------------------------------------------
\* C27: the extract-then-scroll loop of the scroll-driven adapter makes at
\* most 5 scroll attempts (and so at most 5 extractions); a cycle that
\* reaches the target count or adds no new product is the last one, and a
\* cycle that adds no new product issues no scroll; a cycle is followed by
\* another one only after it grew the list, stayed below the target and
\* scrolled.
C27_ScrollLoopStops ==
    /\ [](adp = "woolworths" => (locals.scrollAttempts <= 5 /\ cycles <= 5))
    /\ [][(adp = "woolworths" /\ pc = "await" /\ caught' = None) =>
            LET count == Len(products')
                grew == count # locals.lastProductCount
            IN /\ (count >= opts.maxResults \/ ~grew) => pc' = "done"
               /\ ~grew => locals'.scrollAttempts = locals.scrollAttempts
               /\ pc' = "await" => /\ grew /\ count < opts.maxResults
                                   /\ locals'.scrollAttempts = locals.scrollAttempts + 1
                                   /\ locals'.scrollAttempts < 5
               /\ pc' = "done" => returned' = slice(products', opts.maxResults)]_vars

\* the loop ended by the ceiling: five cycles grew the list, five scrolls
\* were made, and the target was not reached
C27_Witness ==
    /\ adp = "woolworths" /\ pc = "done" /\ caught = None
    /\ locals.scrollAttempts = 5 /\ cycles = 5
    /\ Len(products) = 5 /\ opts.maxResults = 6


C29_ShownProductsOfLatestSearch ==
    (/\ latestSearch > 0
     /\ requests[latestSearch].state = "ok"
     /\ requests[latestSearch].n > 0) =>
        \A k \in 1..Len(appProducts) :
            appProducts[k].req < latestSearch =>
                requests[appProducts[k].req].query = requests[latestSearch].query

C30_WitnessFailed ==
    /\ Len(requests) = 2
    /\ requests[1].resetProducts /\ requests[1].state = "ok"
    /\ ~requests[2].resetProducts /\ requests[2].state = "failed"
    /\ Len(appProducts) = PageLen
    /\ currentPage = 1 /\ hasMore
    /\ ~loadingMore

====
